---- MODULE Spec2Model ----
(***************************************************************************)
(* Model of the travel agent's OAuth2 client-credentials subsystem         *)
(* (src/a2a_protocol/oauth2.py) as it is wired in src/app.py: the Client   *)
(* Registry, the token service (generate/validate_access_token), the token *)
(* endpoint and the OAuth2Middleware that gates every inbound request.     *)
(*                                                                         *)
(* Strings that the code treats as Python None are the string "None".      *)
(* A JWT string is a record of its three segments: the header's alg, the   *)
(* payload claims, the HMAC the signature segment decodes to, and `tail`,  *)
(* the unused low bits of the last base64url character of the signature    *)
(* segment (PyJWT's base64url_decode ignores them).                        *)
(***************************************************************************)
EXTENDS Integers, Sequences, FiniteSets, TLC

VARIABLES
    require_auth,   \* OAuth2Middleware.require_auth (set once, at start-up)
    clients,        \* ClientRegistry._clients : client_id -> OAuth2Client
    now,            \* the wall clock, in seconds (time.time())
    issued,         \* the grants the token endpoint has answered (a log)
    req,            \* the request of the last HTTP exchange
    resp,           \* the response of the last HTTP exchange
    downstream,     \* whether call_next ran for it, and the request.state it saw
    registry_ops,   \* how many registry mutations have happened since start-up
    contexts,       \* TravelAgentExecutor._contexts: session id -> session
    user_context,   \* TravelAgent.user_context, one dict for the executor
    calls,          \* the execute() calls made so far, each with its position
    events,         \* per call, the status events enqueued for its task
    uuids,          \* how many uuid4 values _get_or_create_context has drawn
    ai_enabled,     \* TravelAgent.ai_enabled = AIService.enabled (set at start-up)
    conversation_history,   \* AIService.conversation_history
    cleared         \* the clear_context() calls made so far (a log)

gatewayVars ==
    <<require_auth, clients, now, issued, req, resp, downstream, registry_ops>>

serviceVars == <<ai_enabled, conversation_history, cleared>>

executorVars ==
    <<contexts, user_context, calls, events, uuids,
      ai_enabled, conversation_history, cleared>>

vars == <<require_auth, clients, now, issued, req, resp, downstream, registry_ops,
          contexts, user_context, calls, events, uuids,
          ai_enabled, conversation_history, cleared>>

-----------------------------------------------------------------------------
(* Bounds of the model *)

MaxTime == 3
MaxTokens == 1
MaxRegistryOps == 1
\* The tokens granted in a run where two clients hold tokens side by side.
MaxGrants == 2
\* The registry operations in a run of the registry alone.
MaxRegisterCalls == 3
\* The execute() calls that may be in progress side by side, and the cancel()
\* calls per task.
MaxTasks == 2
MaxCancels == 1
\* The messages handled one after the other in a run of whole conversations.
MaxTurns == 3
\* The token lifetime the process is configured with (OAUTH2_TOKEN_EXPIRY).
ConfiguredExpiry == 2
\* The messages handled one after the other in a run with clear_context(),
\* and the clear_context() calls in it.
MaxResetTurns == 4
MaxResets == 1
\* The entries the LLM conversation history may reach in a run of the AI
\* service alone.
MaxHistory == 22

-----------------------------------------------------------------------------
(* Configuration, oauth2.py lines 30-42 *)

None == "None"
JWT_SECRET_KEY == "server-key"
OtherKey == "other-key"
JWT_ALGORITHM == "HS256"
TOKEN_EXPIRY_SECONDS == ConfiguredExpiry
OAUTH2_SCOPE == "a2a:travel-agent"
ISSUER == "travel-agent-oauth2"
AUDIENCE == "travel-agent-a2a"
EXPECTED_AUDIENCE == "travel-agent-a2a"
OtherAudience == "other-service"

WS == " "
AdminScope == "admin"

Falsy(x) == x \in {None, ""}

-----------------------------------------------------------------------------
(* Client Registry, oauth2.py lines 49-121 *)

Range(seq) == { seq[i] : i \in DOMAIN seq }

\* hashlib.sha256(secret).hexdigest(): one-way and collision-free, so a hash
\* equals another exactly when the secrets are equal.
hash_secret(secret) == [sha256 |-> secret]

\* The value of `self._clients.get(client_id)` when there is no entry.
NoClient ==
    [client_id |-> None, client_secret_hash |-> hash_secret(None),
     scopes |-> <<>>, enabled |-> FALSE]

\* OAuth2Client(...) as register_client builds it; `scopes or [OAUTH2_SCOPE]`.
\* (name and created_at are carried by the dataclass and read by nothing.)
OAuth2Client(client_id, client_secret, scopes) ==
    [client_id |-> client_id,
     client_secret_hash |-> hash_secret(client_secret),
     scopes |-> IF scopes = <<>> THEN <<OAUTH2_SCOPE>> ELSE scopes,
     enabled |-> TRUE]

\* register_client that leaves an entry that is already there as it is.
register_client_keep_existing(reg, client_id, client_secret, scopes) ==
    [c \in (DOMAIN reg) \cup {client_id} |->
        IF c \in DOMAIN reg THEN reg[c]
        ELSE OAuth2Client(client_id, client_secret, scopes)]

\* self._clients[client_id] = client
register_client(reg, client_id, client_secret, scopes) ==
    [c \in (DOMAIN reg) \cup {client_id} |->
        IF c = client_id THEN OAuth2Client(client_id, client_secret, scopes)
        ELSE reg[c]]

get_client(reg, client_id) ==
    IF client_id \in DOMAIN reg THEN reg[client_id] ELSE NoClient

\* validate_client without the `enabled` test.
validate_client_skip_enabled(reg, client_id, client_secret) ==
    LET client == get_client(reg, client_id) IN
    IF client = NoClient THEN NoClient
    ELSE IF client.client_secret_hash # hash_secret(client_secret) THEN NoClient
    ELSE client

validate_client(reg, client_id, client_secret) ==
    LET client == get_client(reg, client_id) IN
    IF client = NoClient THEN NoClient
    ELSE IF ~client.enabled THEN NoClient
    ELSE IF client.client_secret_hash # hash_secret(client_secret) THEN NoClient
    ELSE client

-----------------------------------------------------------------------------
(* Token service, oauth2.py lines 142-205 *)

\* " ".join(granted_scopes): the words with one blank between neighbours.
RECURSIVE Join(_)
Join(words) ==
    IF Len(words) = 0 THEN <<>>
    ELSE IF Len(words) = 1 THEN <<words[1]>>
    ELSE <<words[1], WS>> \o Join(Tail(words))

\* scope_str.split(): the words of the string, blanks dropped.
IsWord(w) == w # WS
Split(str) == SelectSeq(str, IsWord)

\* HMAC-SHA256 of the signing input (header and payload segments) under `key`.
\* Unforgeable: equal only when key, header and payload are all equal.
Mac(key, alg, payload) == [key |-> key, alg |-> alg, over |-> payload]

NoPayload ==
    [client_id |-> None, scopes |-> <<>>, exp |-> 0, iat |-> 0, jti |-> 0,
     iss |-> None, aud |-> None]

\* jwt.encode(payload, key, algorithm=JWT_ALGORITHM)
jwt_encode(payload, key) ==
    [form |-> "jws", alg |-> JWT_ALGORITHM, payload |-> payload,
     sig |-> Mac(key, JWT_ALGORITHM, payload), tail |-> 0]

\* A string that is not three base64url segments (also the empty string).
OpaqueToken ==
    [form |-> "opaque", alg |-> None, payload |-> NoPayload,
     sig |-> Mac(None, None, NoPayload), tail |-> 0]

\* Granted scopes that fall back to the allowed set when the filtered list is
\* empty, not when the requested list is.
GrantedScopes_default_when_empty(client, requested_scopes) ==
    LET Allowed(s) == s \in Range(client.scopes)
        kept == SelectSeq(requested_scopes, Allowed)
    IN IF kept # <<>> THEN kept ELSE client.scopes

\* The granted scopes of generate_access_token, lines 156-160.
GrantedScopes(client, requested_scopes) ==
    IF requested_scopes # <<>>
    THEN LET Allowed(s) == s \in Range(client.scopes)
         IN SelectSeq(requested_scopes, Allowed)
    ELSE client.scopes

\* A payload whose aud is not the audience validate_access_token expects.
TokenPayload_other_audience(client, requested_scopes, t, jti) ==
    [client_id |-> client.client_id,
     scopes |-> GrantedScopes(client, requested_scopes),
     exp |-> t + TOKEN_EXPIRY_SECONDS,
     iat |-> t,
     jti |-> jti,
     iss |-> ISSUER,
     aud |-> ISSUER]

TokenPayload(client, requested_scopes, t, jti) ==
    [client_id |-> client.client_id,
     scopes |-> GrantedScopes(client, requested_scopes),
     exp |-> t + TOKEN_EXPIRY_SECONDS,
     iat |-> t,
     jti |-> jti,
     iss |-> ISSUER,
     aud |-> AUDIENCE]

\* generate_access_token(client, requested_scopes) called at time t; jti is the
\* fresh secrets.token_urlsafe(16).
generate_access_token(client, requested_scopes, t, jti) ==
    [access_token |-> jwt_encode(TokenPayload(client, requested_scopes, t, jti),
                                 JWT_SECRET_KEY),
     token_type |-> "Bearer",
     expires_in |-> TOKEN_EXPIRY_SECONDS,
     scope |-> Join(GrantedScopes(client, requested_scopes))]

\* jwt.decode that does not look at exp (verify_exp switched off).
jwt_decode_no_expiry(token, key, t) ==
    IF token.form # "jws" THEN "InvalidTokenError"
    ELSE IF token.alg # JWT_ALGORITHM THEN "InvalidTokenError"
    ELSE IF token.sig # Mac(key, token.alg, token.payload) THEN "InvalidTokenError"
    ELSE IF token.payload.aud # EXPECTED_AUDIENCE THEN "InvalidTokenError"
    ELSE "ok"

\* jwt.decode that does not check the signature (verify_signature off).
jwt_decode_no_signature(token, key, t) ==
    IF token.form # "jws" THEN "InvalidTokenError"
    ELSE IF token.alg # JWT_ALGORITHM THEN "InvalidTokenError"
    ELSE IF token.payload.exp <= t THEN "ExpiredSignatureError"
    ELSE IF token.payload.aud # EXPECTED_AUDIENCE THEN "InvalidTokenError"
    ELSE "ok"

\* jwt.decode(token, key, algorithms=[JWT_ALGORITHM], audience=...) at time t:
\* "ok", or the exception class it raises.  PyJWT 2 (the version whose encode
\* returns the str that JSONResponse needs) decodes the three segments,
\* rejects an alg outside `algorithms`, compares the decoded signature bytes
\* with the HMAC of the signing input, then validates exp (expired when
\* exp <= now) and aud.  The signature segment's unused trailing bits (tail)
\* are dropped by base64 decoding and take no part in any comparison.
jwt_decode(token, key, t) ==
    IF token.form # "jws" THEN "InvalidTokenError"
    ELSE IF token.alg # JWT_ALGORITHM THEN "InvalidTokenError"
    ELSE IF token.sig # Mac(key, token.alg, token.payload) THEN "InvalidTokenError"
    ELSE IF token.payload.exp <= t THEN "ExpiredSignatureError"
    ELSE IF token.payload.aud # EXPECTED_AUDIENCE THEN "InvalidTokenError"
    ELSE "ok"

\* validate_access_token(token) at time t: the payload, or NoPayload for None.
validate_access_token(token, t) ==
    IF jwt_decode(token, JWT_SECRET_KEY, t) = "ok" THEN token.payload
    ELSE NoPayload

-----------------------------------------------------------------------------
(* HTTP exchange: requests and responses *)

\* The Authorization header.  scheme "absent": no header; "Bearer": the header
\* starts with "Bearer " and `token` is the rest; "Basic": it starts with
\* "Basic ", and when `decodable` the rest is base64 of client_id:client_secret;
\* "other": any other text (another scheme, "bearer" in lower case, ...).
AuthHeader(scheme, client_id, client_secret, decodable, token) ==
    [scheme |-> scheme, client_id |-> client_id, client_secret |-> client_secret,
     decodable |-> decodable, token |-> token]

NoAuth == AuthHeader("absent", None, None, FALSE, OpaqueToken)
OtherAuth == AuthHeader("other", None, None, FALSE, OpaqueToken)
Bearer(token) == AuthHeader("Bearer", None, None, FALSE, token)
Basic(client_id, client_secret) ==
    AuthHeader("Basic", client_id, client_secret, TRUE, OpaqueToken)
BadBasic == AuthHeader("Basic", None, None, FALSE, OpaqueToken)

\* The request body as token_endpoint reads it.  kind "form" and "json" are a
\* mapping with the four fields (None: the key is missing); "json_invalid" does
\* not parse; "json_nonobject" parses to a list, string or number.
Body(kind, grant_type, client_id, client_secret, scope) ==
    [kind |-> kind, grant_type |-> grant_type, client_id |-> client_id,
     client_secret |-> client_secret, scope |-> scope]

EmptyBody == Body("form", None, None, None, <<>>)

Request(path, method, auth, body) ==
    [path |-> path, method |-> method, auth |-> auth, body |-> body]

NoRequest == Request(None, None, NoAuth, EmptyBody)

Response(by, status, error, description, www_authenticate) ==
    [by |-> by, status |-> status, error |-> error,
     error_description |-> description, www_authenticate |-> www_authenticate,
     access_token |-> OpaqueToken, token_type |-> None, expires_in |-> 0,
     scope |-> <<>>]

NoResponse == Response(None, 0, None, None, None)

\* JSONResponse(token_response): status 200 and the four fields.
TokenResponse(t) ==
    [by |-> "token_endpoint", status |-> 200, error |-> None,
     error_description |-> None, www_authenticate |-> None,
     access_token |-> t.access_token, token_type |-> t.token_type,
     expires_in |-> t.expires_in, scope |-> t.scope]

\* What the protocol application answers when call_next runs: not the
\* gateway's business, so one opaque value.
DownstreamResponse == Response("downstream", 200, None, None, None)

\* An exception that leaves dispatch: the server answers 500.
UnhandledException == Response("exception", 500, None, None, None)

-----------------------------------------------------------------------------
(* Token endpoint, oauth2.py lines 212-305 *)

\* client_id and client_secret after the Basic-header fallback, lines 252-265.
\* `decoded.split(":", 1)` replaces both when the header decodes; when it does
\* not, the bare except keeps the body's values.
Credentials(r) ==
    IF (Falsy(r.body.client_id) \/ Falsy(r.body.client_secret))
       /\ r.auth.scheme = "Basic" /\ r.auth.decodable
    THEN [client_id |-> r.auth.client_id, client_secret |-> r.auth.client_secret]
    ELSE [client_id |-> r.body.client_id, client_secret |-> r.body.client_secret]

\* requested_scopes = scope_str.split() if scope_str else None  (None is <<>>:
\* generate_access_token tests it for truth only).
RequestedScopes(r) ==
    IF r.body.scope # <<>> THEN Split(r.body.scope) ELSE <<>>

\* token_endpoint that looks at the credentials before the grant type.
token_endpoint_credentials_first(r, reg, t, jti) ==
    IF r.body.kind = "json_invalid"
    THEN Response("token_endpoint", 400, "invalid_request", "Invalid JSON body", None)
    ELSE IF r.body.kind = "json_nonobject"
    THEN UnhandledException
    ELSE LET cred == Credentials(r)
             client == validate_client(reg, cred.client_id, cred.client_secret)
         IN IF Falsy(cred.client_id) \/ Falsy(cred.client_secret)
            THEN Response("token_endpoint", 400, "invalid_request",
                          "client_id and client_secret are required", None)
            ELSE IF r.body.grant_type # "client_credentials"
            THEN Response("token_endpoint", 400, "unsupported_grant_type",
                          "Only 'client_credentials' grant type is supported", None)
            ELSE IF client = NoClient
            THEN Response("token_endpoint", 401, "invalid_client",
                          "Invalid client credentials", None)
            ELSE TokenResponse(
                     generate_access_token(client, RequestedScopes(r), t, jti))

token_endpoint(r, reg, t, jti) ==
    IF r.body.kind = "json_invalid"
    THEN Response("token_endpoint", 400, "invalid_request", "Invalid JSON body", None)
    ELSE IF r.body.kind = "json_nonobject"
    THEN UnhandledException
    ELSE LET cred == Credentials(r)
             client == validate_client(reg, cred.client_id, cred.client_secret)
         IN IF r.body.grant_type # "client_credentials"
            THEN Response("token_endpoint", 400, "unsupported_grant_type",
                          "Only 'client_credentials' grant type is supported", None)
            ELSE IF Falsy(cred.client_id) \/ Falsy(cred.client_secret)
            THEN Response("token_endpoint", 400, "invalid_request",
                          "client_id and client_secret are required", None)
            ELSE IF client = NoClient
            THEN Response("token_endpoint", 401, "invalid_client",
                          "Invalid client credentials", None)
            ELSE TokenResponse(
                     generate_access_token(client, RequestedScopes(r), t, jti))

-----------------------------------------------------------------------------
(* OAuth2Middleware, oauth2.py lines 312-380 *)

\* The allow-list without the legacy discovery path.
PUBLIC_PATHS_without_legacy ==
    {"/.well-known/agent-card.json", "/oauth/token", "/health"}

PUBLIC_PATHS ==
    {"/.well-known/agent-card.json", "/.well-known/agent.json",
     "/oauth/token", "/health"}

\* request.state as the downstream handler sees it.
NoState == [set |-> FALSE, oauth2_client_id |-> None, oauth2_scopes |-> <<>>]
\* request.state filled with the token's issuer where the client belongs.
StateOf_issuer_as_client(payload) ==
    [set |-> TRUE, oauth2_client_id |-> payload.iss,
     oauth2_scopes |-> payload.scopes]

StateOf(payload) ==
    [set |-> TRUE, oauth2_client_id |-> payload.client_id,
     oauth2_scopes |-> payload.scopes]

Answer(response) == [resp |-> response, called |-> FALSE, state |-> NoState]
CallNext(state) == [resp |-> DownstreamResponse, called |-> TRUE, state |-> state]

\* dispatch that forwards whatever follows "Bearer " without verifying it.
dispatch_unverified(r, auth_required, reg, t, jti) ==
    IF r.path = "/oauth/token"
    THEN Answer(token_endpoint(r, reg, t, jti))
    ELSE IF r.path \in PUBLIC_PATHS
    THEN CallNext(NoState)
    ELSE IF r.method = "GET" /\ r.path = "/"
    THEN CallNext(NoState)
    ELSE IF auth_required
    THEN IF r.auth.scheme # "Bearer"
         THEN Answer(Response("gateway", 401, "unauthorized",
                              "Bearer token required", "Bearer"))
         ELSE CallNext(StateOf(r.auth.token.payload))
    ELSE CallNext(NoState)

\* dispatch that checks a bearer token only when an Authorization header is
\* there at all.
dispatch_header_optional(r, auth_required, reg, t, jti) ==
    IF r.path = "/oauth/token"
    THEN Answer(token_endpoint(r, reg, t, jti))
    ELSE IF r.path \in PUBLIC_PATHS
    THEN CallNext(NoState)
    ELSE IF r.method = "GET" /\ r.path = "/"
    THEN CallNext(NoState)
    ELSE IF auth_required /\ r.auth.scheme # "absent"
    THEN IF r.auth.scheme # "Bearer"
         THEN Answer(Response("gateway", 401, "unauthorized",
                              "Bearer token required", "Bearer"))
         ELSE LET payload == validate_access_token(r.auth.token, t) IN
              IF payload = NoPayload
              THEN Answer(Response("gateway", 401, "invalid_token",
                                   "Invalid or expired access token",
                                   "Bearer error=\"invalid_token\""))
              ELSE CallNext(StateOf(payload))
    ELSE CallNext(NoState)

\* dispatch that tells the caller when the token it refused had expired.
dispatch_expiry_hint(r, auth_required, reg, t, jti) ==
    IF r.path = "/oauth/token"
    THEN Answer(token_endpoint(r, reg, t, jti))
    ELSE IF r.path \in PUBLIC_PATHS
    THEN CallNext(NoState)
    ELSE IF r.method = "GET" /\ r.path = "/"
    THEN CallNext(NoState)
    ELSE IF auth_required
    THEN IF r.auth.scheme # "Bearer"
         THEN Answer(Response("gateway", 401, "unauthorized",
                              "Bearer token required", "Bearer"))
         ELSE LET payload == validate_access_token(r.auth.token, t) IN
              IF payload = NoPayload
              THEN Answer(Response("gateway", 401, "invalid_token",
                                   IF jwt_decode(r.auth.token, JWT_SECRET_KEY, t)
                                        = "ExpiredSignatureError"
                                   THEN "Access token expired"
                                   ELSE "Invalid or expired access token",
                                   "Bearer error=\"invalid_token\""))
              ELSE CallNext(StateOf(payload))
    ELSE CallNext(NoState)

\* dispatch that looks the token's client up in the registry and refuses the
\* token of a client that is gone or disabled.
dispatch_registry_lookup(r, auth_required, reg, t, jti) ==
    IF r.path = "/oauth/token"
    THEN Answer(token_endpoint(r, reg, t, jti))
    ELSE IF r.path \in PUBLIC_PATHS
    THEN CallNext(NoState)
    ELSE IF r.method = "GET" /\ r.path = "/"
    THEN CallNext(NoState)
    ELSE IF auth_required
    THEN IF r.auth.scheme # "Bearer"
         THEN Answer(Response("gateway", 401, "unauthorized",
                              "Bearer token required", "Bearer"))
         ELSE LET payload == validate_access_token(r.auth.token, t) IN
              IF payload = NoPayload
                 \/ ~get_client(reg, payload.client_id).enabled
              THEN Answer(Response("gateway", 401, "invalid_token",
                                   "Invalid or expired access token",
                                   "Bearer error=\"invalid_token\""))
              ELSE CallNext(StateOf(payload))
    ELSE CallNext(NoState)

\* OAuth2Middleware.dispatch(request, call_next): the response, whether
\* call_next was awaited, and the request.state it was awaited with.
dispatch(r, auth_required, reg, t, jti) ==
    IF r.path = "/oauth/token"
    THEN Answer(token_endpoint(r, reg, t, jti))
    ELSE IF r.path \in PUBLIC_PATHS
    THEN CallNext(NoState)
    ELSE IF r.method = "GET" /\ r.path = "/"
    THEN CallNext(NoState)
    ELSE IF auth_required
    THEN IF r.auth.scheme # "Bearer"
         THEN Answer(Response("gateway", 401, "unauthorized",
                              "Bearer token required", "Bearer"))
         ELSE LET payload == validate_access_token(r.auth.token, t) IN
              IF payload = NoPayload
              THEN Answer(Response("gateway", 401, "invalid_token",
                                   "Invalid or expired access token",
                                   "Bearer error=\"invalid_token\""))
              ELSE CallNext(StateOf(payload))
    ELSE CallNext(NoState)

-----------------------------------------------------------------------------
(* Request dispatcher, executor.py *)

\* The parts of an A2A Message: a TextPart carries text (letters and blanks),
\* a DataPart or FilePart carries none.  NoMessage is `context.message` None.
TextPart(text) == [kind |-> "text", text |-> text]
DataPart == [kind |-> "data", text |-> <<>>]
Message(parts) == [present |-> TRUE, parts |-> parts]
NoMessage == [present |-> FALSE, parts |-> <<>>]

\* " ".join(text_parts)
RECURSIVE JoinTexts(_)
JoinTexts(texts) ==
    IF Len(texts) = 0 THEN <<>>
    ELSE IF Len(texts) = 1 THEN texts[1]
    ELSE texts[1] \o <<WS>> \o JoinTexts(Tail(texts))

\* str.strip(): the blanks at both ends removed.
RECURSIVE LStrip(_)
LStrip(str) ==
    IF Len(str) > 0 /\ str[1] = WS THEN LStrip(Tail(str)) ELSE str

RECURSIVE RStrip(_)
RStrip(str) ==
    IF Len(str) > 0 /\ str[Len(str)] = WS
    THEN RStrip(SubSeq(str, 1, Len(str) - 1))
    ELSE str

Strip(str) == RStrip(LStrip(str))

HasText(part) == part.kind = "text"

\* _extract_message_text without the final strip().
extract_message_text_unstripped(message) ==
    IF ~message.present \/ message.parts = <<>> THEN <<>>
    ELSE LET text_parts == SelectSeq(message.parts, HasText) IN
         JoinTexts([i \in 1..Len(text_parts) |-> text_parts[i].text])

\* TravelAgentExecutor._extract_message_text
extract_message_text(message) ==
    IF ~message.present \/ message.parts = <<>> THEN <<>>
    ELSE LET text_parts == SelectSeq(message.parts, HasText) IN
         Strip(JoinTexts([i \in 1..Len(text_parts) |-> text_parts[i].text]))

\* A context_id: absent (None), the empty string, one the caller chose, or
\* the n-th value of uuid.uuid4() (no two draws are equal and no caller
\* guesses one).
NoId == [src |-> "absent", n |-> 0]
EmptyId == [src |-> "empty", n |-> 0]
CallerId(n) == [src |-> "caller", n |-> n]
Uuid4(n) == [src |-> "uuid4", n |-> n]

\* A dict of extracted attributes; a key that is not in the dict holds None.
EmptyContext == [destination |-> None, budget |-> None]

\* dict.update(other)
dict_update(d, other) ==
    [k \in DOMAIN d |-> IF other[k] # None THEN other[k] ELSE d[k]]

\* extract_context that starts from an empty dict instead of a copy of the
\* current context.
extract_context_from_scratch(message, current_context) ==
    [destination |-> IF "paris" \in Range(message) THEN "Paris"
                     ELSE IF "tokyo" \in Range(message) THEN "Tokyo"
                     ELSE None,
     budget |-> IF "$2000" \in Range(message) THEN "2000.0"
                ELSE None]

\* ConversationHandler.extract_context: a copy of the current context with
\* the attributes found in the message written over it.
extract_context(message, current_context) ==
    [destination |-> IF "paris" \in Range(message) THEN "Paris"
                     ELSE IF "tokyo" \in Range(message) THEN "Tokyo"
                     ELSE current_context.destination,
     budget |-> IF "$2000" \in Range(message) THEN "2000.0"
                ELSE current_context.budget]

\* The entry _get_or_create_context stores for a new context_id.
NewContext(context_id) ==
    [context_id |-> context_id, history |-> <<>>, user_context |-> EmptyContext]

\* _get_or_create_context that opens a new session for every call.
get_or_create_context_always_new(store, context_id, drawn) ==
    LET id == Uuid4(drawn + 1) IN
    [contexts |-> [k \in DOMAIN store \cup {id} |->
                      IF k \in DOMAIN store THEN store[k] ELSE NewContext(id)],
     key |-> id,
     uuids |-> drawn + 1]

\* TravelAgentExecutor._get_or_create_context: the store afterwards, the key
\* of the session returned, and the number of uuid4 values drawn so far.
get_or_create_context(store, context_id, drawn) ==
    LET fresh == context_id \in {NoId, EmptyId}
        id == IF fresh THEN Uuid4(drawn + 1) ELSE context_id
    IN
    [contexts |-> [k \in DOMAIN store \cup {id} |->
                      IF k \in DOMAIN store THEN store[k] ELSE NewContext(id)],
     key |-> id,
     uuids |-> IF fresh THEN drawn + 1 ELSE drawn]

\* The message of a status event.
StatusMessage(kind, text, seen, error) ==
    [kind |-> kind, text |-> text, seen |-> seen, error |-> error]

NoStatusMessage == StatusMessage(None, <<>>, EmptyContext, None)

\* "Processing your travel request..."
ProcessingNotice == StatusMessage("processing", <<>>, EmptyContext, None)

\* "I didn't receive a message. Please send your travel question or request."
Clarification == StatusMessage("clarification", <<>>, EmptyContext, None)

\* "Request cancelled."
Cancelled == StatusMessage("cancelled", <<>>, EmptyContext, None)

\* What travel_agent.process_message returns: a text made for the user's
\* message from the attributes the agent holds at that moment.
Reply(user_message, seen) == StatusMessage("reply", user_message, seen, None)

\* f"I encountered an error processing your request: {str(e)}"
ErrorMessage(e) == StatusMessage("error", <<>>, EmptyContext, e)

\* The user's text as content of a history entry.
UserTurn(user_message) == StatusMessage("user", user_message, EmptyContext, None)

\* {"role": role, "content": content}
HistoryEntry(role, content) == [role |-> role, content |-> content]

\* task_updater.update_status(state, message) as seen on the event queue;
\* `by` is the method whose TaskUpdater enqueued it.
Event(by, state, message) == [by |-> by, state |-> state, message |-> message]

TerminalStates == {"completed", "failed", "canceled"}

\* The exception texts: one of the business layer, one of the event queue.
BusinessError == "upstream unavailable"
QueueError == "queue unavailable"

\* The system prompt, the first message of every LLM conversation.
SystemPrompt == StatusMessage("system", <<>>, EmptyContext, None)

\* AIService._get_fallback_response(user_message): a canned text chosen by
\* the words of the message alone.
Fallback(user_message) == StatusMessage("fallback", user_message, EmptyContext, None)

\* What waits for chat_completion: the message and the context sent.
Pending(user_message, context) == StatusMessage("pending", user_message, context, None)

\* AIService.__init__ and reset_conversation: the history is emptied and,
\* when the service is enabled, given the system prompt.
new_conversation(enabled) ==
    IF enabled THEN <<HistoryEntry("system", SystemPrompt)>> ELSE <<>>

\* The sizes in get_ai_response's "limit history size".
HistoryLimit == 20
KeptMessages == 19

\* get_ai_response, lines 147-156: the message, with the context formatted
\* into it, is appended for the user.
with_user_message(history, user_message, context) ==
    Append(history,
           HistoryEntry("user", StatusMessage("user", user_message, context, None)))

\* get_ai_response, lines 165-179: the answer is appended for the assistant
\* and the history cut to the system prompt and the last messages.
with_assistant_message(history, ai_message) ==
    LET h == Append(history, HistoryEntry("assistant", ai_message)) IN
    IF Len(h) > HistoryLimit
    THEN <<h[1]>> \o SubSeq(h, Len(h) - KeptMessages + 1, Len(h))
    ELSE h

\* One execute() call: where it is, what it was called with, the session
\* dict it holds, and its locals.
Call(pc, context_id, message, session, user_message, response, error) ==
    [pc |-> pc, context_id |-> context_id, message |-> message,
     session |-> session, user_message |-> user_message,
     response |-> response, error |-> error]

\* execute() is over: it returned, or an exception left it.
Over(call) == call.pc \in {"returned", "raised"}

Move(t, pc) == [calls EXCEPT ![t].pc = pc]

Emit(t, by, state, message) ==
    [events EXCEPT ![t] = Append(@, Event(by, state, message))]

\* execute, lines 61-64: the TaskUpdater is made and the session resolved.
\* `alone`: the caller waits for the call before to be over.
Execute(message, context_id, cap, alone) ==
    LET r == get_or_create_context(contexts, context_id, uuids) IN
    /\ Len(calls) < cap
    /\ alone => \A t \in DOMAIN calls : Over(calls[t])
    /\ contexts' = r.contexts
    /\ uuids' = r.uuids
    /\ calls' = Append(calls, Call("resolved", context_id, message, r.key,
                                   <<>>, NoStatusMessage, None))
    /\ events' = Append(events, <<>>)
    /\ UNCHANGED user_context
    /\ UNCHANGED gatewayVars
    /\ UNCHANGED serviceVars

\* execute, lines 68-71.  `ok`: update_status returns; otherwise it raises.
EmitWorking(t, ok) ==
    /\ calls[t].pc = "resolved"
    /\ IF ok
       THEN /\ events' = Emit(t, "execute", "working", ProcessingNotice)
            /\ calls' = Move(t, "working")
       ELSE /\ events' = events
            /\ calls' = [calls EXCEPT ![t].pc = "except", ![t].error = QueueError]
    /\ UNCHANGED <<contexts, user_context, uuids>>
    /\ UNCHANGED gatewayVars
    /\ UNCHANGED serviceVars

\* execute, lines 74-76.
Extract(t) ==
    LET user_message == extract_message_text(calls[t].message) IN
    /\ calls[t].pc = "working"
    /\ calls' = [calls EXCEPT ![t].user_message = user_message,
                              ![t].pc = IF user_message = <<>> THEN "empty"
                                        ELSE "scheduled"]
    /\ UNCHANGED <<contexts, user_context, events, uuids>>
    /\ UNCHANGED gatewayVars
    /\ UNCHANGED serviceVars

\* The empty-message branch without its `return`: execute goes on to the
\* business layer after the clarification.
EmitClarification_no_return(t, ok) ==
    /\ calls[t].pc = "empty"
    /\ IF ok
       THEN /\ events' = Emit(t, "execute", "completed", Clarification)
            /\ calls' = Move(t, "scheduled")
       ELSE /\ events' = events
            /\ calls' = [calls EXCEPT ![t].pc = "except", ![t].error = QueueError]
    /\ UNCHANGED <<contexts, user_context, uuids>>
    /\ UNCHANGED gatewayVars
    /\ UNCHANGED serviceVars

\* execute, lines 78-84.
EmitClarification(t, ok) ==
    /\ calls[t].pc = "empty"
    /\ IF ok
       THEN /\ events' = Emit(t, "execute", "completed", Clarification)
            /\ calls' = Move(t, "returned")
       ELSE /\ events' = events
            /\ calls' = [calls EXCEPT ![t].pc = "except", ![t].error = QueueError]
    /\ UNCHANGED <<contexts, user_context, uuids>>
    /\ UNCHANGED gatewayVars
    /\ UNCHANGED serviceVars

\* _process_message, lines 188-195, in a thread of the pool.
ProcessBegin(t) ==
    LET s == calls[t].session IN
    /\ calls[t].pc = "scheduled"
    /\ contexts' = [contexts EXCEPT ![s].history =
                       Append(@, HistoryEntry("user", UserTurn(calls[t].user_message)))]
    /\ user_context' = IF contexts[s].user_context # EmptyContext
                       THEN dict_update(user_context, contexts[s].user_context)
                       ELSE user_context
    /\ calls' = Move(t, "business")
    /\ UNCHANGED <<events, uuids>>
    /\ UNCHANGED gatewayVars
    /\ UNCHANGED serviceVars

\* _process_message, line 198: travel_agent.process_message extracts the
\* attributes into the agent's user_context and then answers or raises.
Business(t, raises) ==
    LET seen == extract_context(calls[t].user_message, user_context) IN
    /\ calls[t].pc = "business"
    /\ ~ai_enabled
    /\ user_context' = seen
    /\ calls' = IF raises
                THEN [calls EXCEPT ![t].pc = "except", ![t].error = BusinessError]
                ELSE [calls EXCEPT ![t].pc = "answered",
                                   ![t].response = Reply(calls[t].user_message, seen)]
    /\ UNCHANGED <<contexts, events, uuids>>
    /\ UNCHANGED gatewayVars
    /\ UNCHANGED serviceVars

\* _process_message, line 198, with the AI service: process_message extracts
\* the attributes into the agent's user_context, get_ai_response appends the
\* message to the LLM history and chat_completion posts it (requests.post
\* with no timeout).
AskLLM(t) ==
    LET seen == extract_context(calls[t].user_message, user_context) IN
    /\ calls[t].pc = "business"
    /\ ai_enabled
    /\ user_context' = seen
    /\ conversation_history' =
           with_user_message(conversation_history, calls[t].user_message, seen)
    /\ calls' = [calls EXCEPT ![t].pc = "llm",
                              ![t].response = Pending(calls[t].user_message, seen)]
    /\ UNCHANGED <<contexts, events, uuids, ai_enabled, cleared>>
    /\ UNCHANGED gatewayVars

\* The backend answers: get_ai_response, lines 165-181.
LLMAnswers(t) ==
    LET ai_message == Reply(calls[t].response.text, calls[t].response.seen) IN
    /\ calls[t].pc = "llm"
    /\ conversation_history' =
           with_assistant_message(conversation_history, ai_message)
    /\ calls' = [calls EXCEPT ![t].pc = "answered", ![t].response = ai_message]
    /\ UNCHANGED <<contexts, user_context, events, uuids, ai_enabled, cleared>>
    /\ UNCHANGED gatewayVars

\* chat_completion raises (an HTTP error, a refused connection):
\* get_ai_response, lines 183-185, answers with the fallback.
LLMFails(t) ==
    /\ calls[t].pc = "llm"
    /\ calls' = [calls EXCEPT ![t].pc = "answered",
                              ![t].response = Fallback(calls[t].user_message)]
    /\ UNCHANGED <<contexts, user_context, events, uuids>>
    /\ UNCHANGED serviceVars
    /\ UNCHANGED gatewayVars

\* _process_message, lines 201-209.
ProcessEnd(t) ==
    LET s == calls[t].session IN
    /\ calls[t].pc = "answered"
    /\ contexts' = [contexts EXCEPT
                       ![s].user_context = user_context,
                       ![s].history =
                           Append(@, HistoryEntry("agent", calls[t].response))]
    /\ calls' = Move(t, "processed")
    /\ UNCHANGED <<user_context, events, uuids>>
    /\ UNCHANGED gatewayVars
    /\ UNCHANGED serviceVars

\* execute, lines 96-99.
EmitCompleted(t, ok) ==
    /\ calls[t].pc = "processed"
    /\ IF ok
       THEN /\ events' = Emit(t, "execute", "completed", calls[t].response)
            /\ calls' = Move(t, "returned")
       ELSE /\ events' = events
            /\ calls' = [calls EXCEPT ![t].pc = "except", ![t].error = QueueError]
    /\ UNCHANGED <<contexts, user_context, uuids>>
    /\ UNCHANGED gatewayVars
    /\ UNCHANGED serviceVars

\* execute, lines 101-107: the handler of `except Exception`; an exception
\* of its own update_status leaves execute.
EmitFailed(t, ok) ==
    /\ calls[t].pc = "except"
    /\ IF ok
       THEN /\ events' = Emit(t, "execute", "failed", ErrorMessage(calls[t].error))
            /\ calls' = Move(t, "returned")
       ELSE /\ events' = events
            /\ calls' = Move(t, "raised")
    /\ UNCHANGED <<contexts, user_context, uuids>>
    /\ UNCHANGED gatewayVars
    /\ UNCHANGED serviceVars

CancelEvents(t) == SelectSeq(events[t], LAMBDA e : e.by = "cancel")

\* cancel, lines 117-123: a TaskUpdater of its own enqueues CANCELED.
Cancel(t, cap) ==
    /\ Len(CancelEvents(t)) < cap
    /\ events' = Emit(t, "cancel", "canceled", Cancelled)
    /\ UNCHANGED <<contexts, user_context, calls, uuids>>
    /\ UNCHANGED gatewayVars
    /\ UNCHANGED serviceVars

\* clear_context, lines 218-220, called between two execute() calls; the
\* agent's reset_conversation empties its user_context and the LLM history.
ClearContext(context_id, cap) ==
    /\ Len(cleared) < cap
    /\ \A t \in DOMAIN calls : Over(calls[t])
    /\ contexts' = [k \in DOMAIN contexts \ {context_id} |-> contexts[k]]
    /\ user_context' = EmptyContext
    /\ conversation_history' = new_conversation(ai_enabled)
    /\ cleared' = Append(cleared, [context_id |-> context_id, after |-> Len(calls)])
    /\ UNCHANGED <<calls, events, uuids, ai_enabled>>
    /\ UNCHANGED gatewayVars

\* AIService.get_ai_response(user_message, context) as one call, lines
\* 146-185.  `succeeds`: chat_completion returns; otherwise it raises.
GetAIResponse(user_message, context, succeeds, cap) ==
    LET asked == with_user_message(conversation_history, user_message, context) IN
    /\ ai_enabled
    /\ Len(conversation_history) < cap
    /\ conversation_history' =
           IF succeeds
           THEN with_assistant_message(asked, Reply(user_message, context))
           ELSE asked
    /\ UNCHANGED <<contexts, user_context, calls, events, uuids, ai_enabled, cleared>>
    /\ UNCHANGED gatewayVars

\* AIService.reset_conversation, lines 294-298.
ResetConversation ==
    /\ conversation_history' = new_conversation(ai_enabled)
    /\ UNCHANGED <<contexts, user_context, calls, events, uuids, ai_enabled, cleared>>
    /\ UNCHANGED gatewayVars

-----------------------------------------------------------------------------
(* The inputs the model draws from *)

ClientIds == {"", "acme", "beta"}
Secrets == {"s3cr3t", "hunter2"}

\* The environment the process starts in: OAUTH2_CLIENT_ID / _SECRET unset
\* (both default to "") or set; OAUTH2_ENABLED true or false.
DefaultClients ==
    { [client_id |-> "", client_secret |-> ""],
      [client_id |-> "acme", client_secret |-> "s3cr3t"] }

\* Text of a `scope` field: words and blanks.  <<>> is the empty string.
ScopeStrings ==
    { <<>>, <<WS>>, <<AdminScope>>,
      <<OAUTH2_SCOPE, WS, AdminScope>>, <<OAUTH2_SCOPE, WS, OAUTH2_SCOPE>> }

\* Scope lists a caller of register_client passes (<<>>: the default None).
RegisterScopes == { <<>>, <<OAUTH2_SCOPE, AdminScope>> }

\* Token strings a caller can put after "Bearer ": what the server issued,
\* and what can be made from those without the server's key: the signature
\* segment's trailing bits changed, a claim changed under the old signature,
\* a claim changed and the token signed again with another key, the header's
\* alg changed; tokens built from scratch under another key; tokens another
\* service holding the same signing secret minted for its own audience; and
\* text that is no JWT at all.
Escalated(payload) ==
    { [payload EXCEPT !.scopes = <<OAUTH2_SCOPE, AdminScope>>],
      [payload EXCEPT !.client_id = "root"],
      [payload EXCEPT !.exp = MaxTime + TOKEN_EXPIRY_SECONDS + 1] }

Tampered(token) ==
    { [token EXCEPT !.tail = 1], [token EXCEPT !.alg = "none"],
      [token EXCEPT !.sig = Mac(OtherKey, token.alg, token.payload)] }
    \cup { [token EXCEPT !.payload = p] : p \in Escalated(token.payload) }
    \cup { jwt_encode(p, OtherKey) : p \in Escalated(token.payload) }

SomePayload(exp, aud) ==
    [client_id |-> "acme", scopes |-> <<OAUTH2_SCOPE>>, exp |-> exp, iat |-> 0,
     jti |-> 0, iss |-> ISSUER, aud |-> aud]

ForgedTokens ==
    { jwt_encode(SomePayload(e, AUDIENCE), OtherKey)
        : e \in {0, MaxTime + TOKEN_EXPIRY_SECONDS + 1} }

ForeignTokens ==
    { jwt_encode(SomePayload(e, OtherAudience), JWT_SECRET_KEY)
        : e \in {0, MaxTime + TOKEN_EXPIRY_SECONDS + 1} }

IssuedTokens == { g.access_token : g \in issued }

BearerTokens ==
    IssuedTokens \cup UNION { Tampered(t) : t \in IssuedTokens }
    \cup ForgedTokens \cup ForeignTokens \cup {OpaqueToken}

GatewayPaths ==
    {"/", "/tasks", "/health", "/.well-known/agent-card.json",
     "/.well-known/agent.json"}

GatewayRequests ==
    { Request(p, m, a, EmptyBody)
        : p \in GatewayPaths, m \in {"GET", "POST"},
          a \in {NoAuth, OtherAuth, Basic("acme", "s3cr3t")}
                \cup { Bearer(t) : t \in BearerTokens } }

\* Requests to /oauth/token: every mix of grant type and body credentials
\* with no header; the Basic header, good and undecodable, over bodies that
\* lack credentials or carry them; every scope text with credentials that may
\* be right; bodies that are not a mapping; and a GET.
TokenRequests ==
    { Request("/oauth/token", "POST", NoAuth, Body("form", g, c, s, <<>>))
        : g \in {None, "client_credentials", "password"},
          c \in {None} \cup ClientIds,
          s \in {None, ""} \cup Secrets }
    \cup { Request("/oauth/token", "POST", a, Body("form", g, c, s, <<>>))
             : a \in {BadBasic, Basic("acme", "s3cr3t"), Basic("acme", "")},
               g \in {"client_credentials", "password"},
               c \in {None, "beta"},
               s \in {None, "hunter2"} }
    \cup { Request("/oauth/token", "POST", NoAuth,
                   Body(k, "client_credentials", c, "s3cr3t", sc))
             : k \in {"form", "json"}, c \in {"acme", "beta"},
               sc \in ScopeStrings }
    \cup { Request("/oauth/token", "POST", a, Body(k, None, None, None, <<>>))
             : a \in {NoAuth, Basic("acme", "s3cr3t")},
               k \in {"json_invalid", "json_nonobject"} }
    \cup { Request("/oauth/token", "GET", NoAuth, EmptyBody) }

\* The token requests of a client that runs the grant before it calls the
\* protocol endpoint, as test_basic_flow does, and some that must fail.
GrantRequests ==
    { Request("/oauth/token", "POST", a, Body("form", g, "acme", s, sc))
        : a \in {NoAuth, Bearer(OpaqueToken)},
          g \in {"client_credentials", "password"},
          s \in Secrets,
          sc \in {<<>>, <<OAUTH2_SCOPE>>, <<AdminScope>>} }

-----------------------------------------------------------------------------
(* The state machine *)

\* The grant log entry of a 200 answer of the token endpoint: when it was
\* given, the client_id the credentials named, and the response's fields.
Grant(r, response, t) ==
    [at |-> t, client_id |-> Credentials(r).client_id,
     access_token |-> response.access_token,
     expires_in |-> response.expires_in, scope |-> response.scope]

Idle == req = NoRequest

\* After import of oauth2.py (the registry holds the default client) and
\* create_application() (the middleware holds require_auth).
Init ==
    /\ require_auth \in BOOLEAN
    /\ \E d \in DefaultClients :
           clients = register_client(<<>>, d.client_id, d.client_secret, <<>>)
    /\ now = 0
    /\ issued = {}
    /\ req = NoRequest
    /\ resp = NoResponse
    /\ downstream = [called |-> FALSE, state |-> NoState]
    /\ registry_ops = 0
    /\ contexts = <<>>
    /\ user_context = EmptyContext
    /\ calls = <<>>
    /\ events = <<>>
    /\ uuids = 0
    /\ ai_enabled \in BOOLEAN
    /\ conversation_history = new_conversation(ai_enabled)
    /\ cleared = <<>>

\* A second passes.
Tick ==
    /\ Idle
    /\ now < MaxTime
    /\ now' = now + 1
    /\ UNCHANGED <<require_auth, clients, issued, req, resp, downstream, registry_ops>>
    /\ UNCHANGED executorVars

\* client_registry.register_client(client_id, client_secret, name, scopes)
RegisterWithin(client_id, client_secret, scopes, cap) ==
    /\ Idle
    /\ registry_ops < cap
    /\ clients' = register_client(clients, client_id, client_secret, scopes)
    /\ registry_ops' = registry_ops + 1
    /\ UNCHANGED <<require_auth, now, issued, req, resp, downstream>>
    /\ UNCHANGED executorVars

\* client_registry.get_client(client_id).enabled = False
DisableWithin(client_id, cap) ==
    /\ Idle
    /\ registry_ops < cap
    /\ client_id \in DOMAIN clients
    /\ clients[client_id].enabled
    /\ clients' = [clients EXCEPT ![client_id].enabled = FALSE]
    /\ registry_ops' = registry_ops + 1
    /\ UNCHANGED <<require_auth, now, issued, req, resp, downstream>>
    /\ UNCHANGED executorVars

RegisterClient(client_id, client_secret, scopes) ==
    RegisterWithin(client_id, client_secret, scopes, MaxRegistryOps)

DisableClient(client_id) == DisableWithin(client_id, MaxRegistryOps)

IsTokenGrant(response) ==
    response.by = "token_endpoint" /\ response.status = 200

\* One request through the application of app.py: OAuth2Middleware.dispatch,
\* the outermost layer, and whatever it calls.
HandleWithin(r, cap) ==
    LET out == dispatch(r, require_auth, clients, now, Cardinality(issued) + 1) IN
    /\ Idle
    /\ IsTokenGrant(out.resp) => Cardinality(issued) < cap
    /\ req' = r
    /\ resp' = out.resp
    /\ downstream' = [called |-> out.called, state |-> out.state]
    /\ issued' = IF IsTokenGrant(out.resp)
                 THEN issued \cup {Grant(r, out.resp, now)}
                 ELSE issued
    /\ UNCHANGED <<require_auth, clients, now, registry_ops>>
    /\ UNCHANGED executorVars

Handle(r) == HandleWithin(r, MaxTokens)

TokenRequest(r) == r.path = "/oauth/token" /\ Handle(r)

GatewayRequest(r) == r.path # "/oauth/token" /\ Handle(r)

\* The response has been sent: the exchange is over and its request, response
\* and request.state are gone.
Close ==
    /\ ~Idle
    /\ req' = NoRequest
    /\ resp' = NoResponse
    /\ downstream' = [called |-> FALSE, state |-> NoState]
    /\ UNCHANGED <<require_auth, clients, now, issued, registry_ops>>
    /\ UNCHANGED executorVars

\* The running application: clients obtain tokens and call the gateway while
\* time passes.
Next ==
    \/ Tick
    \/ \E r \in GrantRequests : TokenRequest(r)
    \/ \E r \in GatewayRequests : GatewayRequest(r)
    \/ Close

Spec == Init /\ [][Next]_vars

\* The token endpoint over a registry that is being administered.
NextToken ==
    \/ \E c \in ClientIds \ {""}, s \in Secrets, sc \in RegisterScopes :
           RegisterClient(c, s, sc)
    \/ \E c \in ClientIds : DisableClient(c)
    \/ \E r \in TokenRequests : TokenRequest(r)
    \/ Close

SpecToken == Init /\ [][NextToken]_vars

\* Two clients of the service, each running the flow of test_basic_flow:
\* the grant with its own credentials, then POSTs to the protocol endpoint
\* with a token it was given (or with none).
ClientGrantRequests ==
    { Request("/oauth/token", "POST", NoAuth,
              Body("form", "client_credentials", c, "s3cr3t", sc))
        : c \in {"acme", "beta"}, sc \in {<<>>, <<AdminScope>>} }

ClientCalls ==
    { Request("/", "POST", a, EmptyBody)
        : a \in {NoAuth} \cup { Bearer(t) : t \in IssuedTokens } }

ClientGrant(r) == HandleWithin(r, MaxGrants)

ClientCall(r) == Handle(r)

\* The service with its registry being administered while clients hold
\* tokens and time passes.
NextClients ==
    \/ Tick
    \/ \E c \in {"acme", "beta"}, s \in Secrets, sc \in RegisterScopes :
           RegisterClient(c, s, sc)
    \/ \E c \in {"acme", "beta"} : DisableClient(c)
    \/ \E r \in ClientGrantRequests : ClientGrant(r)
    \/ \E r \in ClientCalls : ClientCall(r)
    \/ Close

SpecClients == Init /\ [][NextClients]_vars

\* The registry alone: register_client called with any id, secret and scope
\* list, and clients being disabled.
RegistrySecrets == Secrets \cup {""}

Register(client_id, client_secret, scopes) ==
    RegisterWithin(client_id, client_secret, scopes, MaxRegisterCalls)

Disable(client_id) == DisableWithin(client_id, MaxRegisterCalls)

NextRegistry ==
    \/ \E c \in ClientIds, s \in RegistrySecrets, sc \in RegisterScopes :
           Register(c, s, sc)
    \/ \E c \in ClientIds : Disable(c)

SpecRegistry == Init /\ [][NextRegistry]_vars

\* Messages whose text is empty: none, no parts, no text-bearing part, blank
\* text, empty texts joined.
EmptyMessages ==
    { NoMessage, Message(<<>>), Message(<<DataPart>>),
      Message(<<TextPart(<<WS>>)>>),
      Message(<<TextPart(<<>>), DataPart, TextPart(<<>>)>>) }

\* Messages with text: "paris", " tokyo" after a data part, "$2000" and
\* "hello " in two parts.
TextMessages ==
    { Message(<<TextPart(<<"paris">>)>>),
      Message(<<DataPart, TextPart(<<WS, "tokyo">>)>>),
      Message(<<TextPart(<<"$2000">>), TextPart(<<"hello", WS>>)>>) }

\* The executor does not read the gateway's state: one environment is enough.
\* The agent without credentials of an LLM answers by its rules.
InitExecutor == Init /\ require_auth /\ "acme" \in DOMAIN clients /\ ~ai_enabled

\* The agent with the credentials of an LLM.
InitService == Init /\ require_auth /\ "acme" \in DOMAIN clients /\ ai_enabled

\* The dispatcher with execute() and cancel() calls interleaved at their
\* awaits and with the thread pool, over an event queue that takes every
\* event.
NextDispatcher ==
    \/ \E m \in EmptyMessages \cup TextMessages, c \in {NoId, CallerId(1)} :
           Execute(m, c, MaxTasks, FALSE)
    \/ \E t \in DOMAIN calls : EmitWorking(t, TRUE)
    \/ \E t \in DOMAIN calls : Extract(t)
    \/ \E t \in DOMAIN calls : EmitClarification(t, TRUE)
    \/ \E t \in DOMAIN calls : ProcessBegin(t)
    \/ \E t \in DOMAIN calls, raises \in BOOLEAN : Business(t, raises)
    \/ \E t \in DOMAIN calls : ProcessEnd(t)
    \/ \E t \in DOMAIN calls : EmitCompleted(t, TRUE)
    \/ \E t \in DOMAIN calls : EmitFailed(t, TRUE)
    \/ \E t \in DOMAIN calls : Cancel(t, MaxCancels)

SpecDispatcher == InitExecutor /\ [][NextDispatcher]_vars

\* The dispatcher over an event queue whose update_status may raise.
NextQueueFaults ==
    \/ \E m \in {NoMessage, Message(<<TextPart(<<"paris">>)>>)} :
           Execute(m, CallerId(1), MaxTasks, FALSE)
    \/ \E t \in DOMAIN calls, ok \in BOOLEAN : EmitWorking(t, ok)
    \/ \E t \in DOMAIN calls : Extract(t)
    \/ \E t \in DOMAIN calls, ok \in BOOLEAN : EmitClarification(t, ok)
    \/ \E t \in DOMAIN calls : ProcessBegin(t)
    \/ \E t \in DOMAIN calls, raises \in BOOLEAN : Business(t, raises)
    \/ \E t \in DOMAIN calls : ProcessEnd(t)
    \/ \E t \in DOMAIN calls, ok \in BOOLEAN : EmitCompleted(t, ok)
    \/ \E t \in DOMAIN calls, ok \in BOOLEAN : EmitFailed(t, ok)

SpecQueueFaults == InitExecutor /\ [][NextQueueFaults]_vars

\* Conversations: messages handled one after the other, each with no
\* context_id, an empty one, or one of two the callers chose.
NextConversations ==
    \/ \E m \in {Message(<<>>)} \cup TextMessages,
          c \in {NoId, EmptyId, CallerId(1), CallerId(2)} :
           Execute(m, c, MaxTurns, TRUE)
    \/ \E t \in DOMAIN calls : EmitWorking(t, TRUE)
    \/ \E t \in DOMAIN calls : Extract(t)
    \/ \E t \in DOMAIN calls : EmitClarification(t, TRUE)
    \/ \E t \in DOMAIN calls : ProcessBegin(t)
    \/ \E t \in DOMAIN calls, raises \in BOOLEAN : Business(t, raises)
    \/ \E t \in DOMAIN calls : ProcessEnd(t)
    \/ \E t \in DOMAIN calls : EmitCompleted(t, TRUE)
    \/ \E t \in DOMAIN calls : EmitFailed(t, TRUE)

SpecConversations == InitExecutor /\ [][NextConversations]_vars

\* Conversations of two sessions with the AI service, messages handled one
\* after the other, and clear_context() between them for a session of the
\* store or an id the store does not hold.
NextResets ==
    \/ \E m \in { Message(<<TextPart(<<"paris">>)>>),
                  Message(<<TextPart(<<"$2000">>), TextPart(<<"hello", WS>>)>>) },
          c \in {CallerId(1), CallerId(2)} :
           Execute(m, c, MaxResetTurns, TRUE)
    \/ \E t \in DOMAIN calls : EmitWorking(t, TRUE)
    \/ \E t \in DOMAIN calls : Extract(t)
    \/ \E t \in DOMAIN calls : ProcessBegin(t)
    \/ \E t \in DOMAIN calls : AskLLM(t)
    \/ \E t \in DOMAIN calls : LLMAnswers(t)
    \/ \E t \in DOMAIN calls : LLMFails(t)
    \/ \E t \in DOMAIN calls : ProcessEnd(t)
    \/ \E t \in DOMAIN calls : EmitCompleted(t, TRUE)
    \/ \E c \in {CallerId(1), CallerId(3)} : ClearContext(c, MaxResets)

SpecResets == InitService /\ [][NextResets]_vars

\* The dispatcher with the AI service.  The event loop and the thread pool
\* run every step that is ready; nothing makes the backend answer.
NextLLM ==
    \/ \E m \in {NoMessage, Message(<<TextPart(<<"paris">>)>>),
                  Message(<<TextPart(<<"$2000">>), TextPart(<<"hello", WS>>)>>)},
          c \in {NoId, CallerId(1)} :
           Execute(m, c, MaxTasks, FALSE)
    \/ \E t \in DOMAIN calls : EmitWorking(t, TRUE)
    \/ \E t \in DOMAIN calls : Extract(t)
    \/ \E t \in DOMAIN calls : EmitClarification(t, TRUE)
    \/ \E t \in DOMAIN calls : ProcessBegin(t)
    \/ \E t \in DOMAIN calls : AskLLM(t)
    \/ \E t \in DOMAIN calls : LLMAnswers(t)
    \/ \E t \in DOMAIN calls : LLMFails(t)
    \/ \E t \in DOMAIN calls : ProcessEnd(t)
    \/ \E t \in DOMAIN calls : EmitCompleted(t, TRUE)

\* A step of the executor's own code that is ready to run.
DispatcherStep ==
    \E t \in DOMAIN calls :
        \/ EmitWorking(t, TRUE)
        \/ Extract(t)
        \/ EmitClarification(t, TRUE)
        \/ ProcessBegin(t)
        \/ AskLLM(t)
        \/ ProcessEnd(t)
        \/ EmitCompleted(t, TRUE)

SpecLLM == InitService /\ [][NextLLM]_vars /\ WF_vars(DispatcherStep)

\* The AI service alone: get_ai_response calls whose LLM call succeeds or
\* fails, and reset_conversation.
NextAI ==
    \/ \E succeeds \in BOOLEAN :
           GetAIResponse(<<"paris">>, EmptyContext, succeeds, MaxHistory)
    \/ ResetConversation

SpecAI == InitService /\ [][NextAI]_vars

-----------------------------------------------------------------------------
(* Properties *)

\* The request of the exchange in progress is one the gateway protects: not
\* the token endpoint, not an allow-listed path, not a GET on the root path.
Protected(r) ==
    /\ r.path # "/oauth/token"
    /\ r.path \notin {"/.well-known/agent-card.json", "/.well-known/agent.json",
                      "/health"}
    /\ ~(r.method = "GET" /\ r.path = "/")

\* The same token string up to the unused trailing bits of its signature
\* segment.
SameSegments(a, b) ==
    a.form = b.form /\ a.alg = b.alg /\ a.payload = b.payload /\ a.sig = b.sig

\* `token` is one the token endpoint granted and that has not expired yet.
CurrentlyValid(token) ==
    \E g \in issued :
        /\ SameSegments(token, g.access_token)
        /\ now < g.at + g.expires_in

\* C1: with authentication required, a protected request reaches the
\* downstream handler only if it carries "Bearer <token>" and the token passes
\* validate_access_token at that moment, which only an unexpired token granted
\* by the token endpoint does.
C1_ProtectedNeedsValidToken ==
    (require_auth /\ ~Idle /\ Protected(req) /\ downstream.called)
    => /\ req.auth.scheme = "Bearer"
       /\ validate_access_token(req.auth.token, now) # NoPayload
       /\ CurrentlyValid(req.auth.token)

\* C1 witness: a protected POST with a granted token was forwarded.
C1_Witness ==
    /\ require_auth /\ ~Idle /\ Protected(req) /\ req.method = "POST"
    /\ req.path = "/" /\ downstream.called

\* C2 as claimed: a POST to the root path that carries no bearer token is
\* answered 401 unauthorized with WWW-Authenticate: Bearer and is not
\* forwarded, whatever the auth-required toggle is.
C2_Original ==
    (~Idle /\ req.path = "/" /\ req.method = "POST" /\ req.auth.scheme # "Bearer")
    => /\ resp.status = 401 /\ resp.error = "unauthorized"
       /\ resp.www_authenticate = "Bearer"
       /\ ~downstream.called

\* C2 amended: the same, when the auth-required toggle is on.
C2_UnauthenticatedPostRejected ==
    (require_auth /\ ~Idle /\ req.path = "/" /\ req.method = "POST"
       /\ req.auth.scheme # "Bearer")
    => /\ resp.status = 401 /\ resp.error = "unauthorized"
       /\ resp.www_authenticate = "Bearer"
       /\ resp.by = "gateway"
       /\ ~downstream.called

\* C2 witness: such a POST, with no Authorization header, was answered 401.
C2_Witness ==
    /\ require_auth /\ ~Idle /\ req.path = "/" /\ req.method = "POST"
    /\ req.auth.scheme = "absent" /\ resp.status = 401

\* The registry holds an enabled client under client_id whose stored hash is
\* the hash of client_secret.
Registered(client_id, client_secret) ==
    /\ client_id \in DOMAIN clients
    /\ clients[client_id].enabled
    /\ clients[client_id].client_secret_hash = hash_secret(client_secret)

\* The (client_id, secret) pairs a token request presents: the body's, and
\* the Basic header's when it decodes.
PresentedPairs(r) ==
    { <<r.body.client_id, r.body.client_secret>> }
    \cup (IF r.auth.scheme = "Basic" /\ r.auth.decodable
          THEN { <<r.auth.client_id, r.auth.client_secret>> } ELSE {})

\* C3: the token endpoint answers 200 with an access token only if grant_type
\* is 'client_credentials' and a presented (client_id, secret) pair names a
\* client that exists, is enabled and whose stored hash is the hash of the
\* presented secret; the token names that client.
C3_GrantOnlyForValidClient ==
    (~Idle /\ req.path = "/oauth/token" /\ resp.status = 200)
    => /\ req.body.grant_type = "client_credentials"
       /\ \E pair \in PresentedPairs(req) :
              /\ Registered(pair[1], pair[2])
              /\ resp.access_token.payload.client_id = pair[1]
       /\ resp.access_token # OpaqueToken

\* C3 witness: a token was granted on credentials from the Basic header.
C3_Witness ==
    /\ ~Idle /\ req.path = "/oauth/token" /\ resp.status = 200
    /\ req.auth.scheme = "Basic" /\ req.body.client_secret = None

\* A client with the right secret that is refused because it is disabled: the
\* case C3 excludes does occur.
C3_DisabledRefused ==
    /\ ~Idle /\ req.path = "/oauth/token" /\ resp.error = "invalid_client"
    /\ req.body.client_id \in DOMAIN clients
    /\ ~clients[req.body.client_id].enabled
    /\ clients[req.body.client_id].client_secret_hash
         = hash_secret(req.body.client_secret)

\* C5: every granted token, verified before its expiry, yields claims whose
\* client_id is the client_id the credentials named (a registered client) and
\* whose scopes, joined, are the scope field of the grant's response.
C5_RoundTrip ==
    \A g \in issued :
        now < g.at + g.expires_in
        => LET claims == validate_access_token(g.access_token, now) IN
           /\ claims # NoPayload
           /\ claims.client_id = g.client_id
           /\ g.client_id \in DOMAIN clients
           /\ Join(claims.scopes) = g.scope

\* C5 witness: a client allowed two scopes was granted both, and the grant is
\* still within its lifetime.
C5_Witness ==
    \E g \in issued :
        /\ now < g.at + g.expires_in
        /\ g.scope = <<OAUTH2_SCOPE, WS, AdminScope>>

\* C6: the granted scopes are the requested scopes that the client is allowed,
\* in request order, when at least one scope is requested, and the client's
\* whole allowed list when none is; so no scope outside the allowed list is in
\* the token or in the response's scope field, and a request that names only
\* disallowed scopes is granted the empty list.
C6_ScopeNarrowing ==
    (~Idle /\ req.path = "/oauth/token" /\ resp.status = 200)
    => LET allowed == clients[resp.access_token.payload.client_id].scopes
           requested == SelectSeq(req.body.scope, IsWord)
           granted == resp.access_token.payload.scopes
           IsAllowed(w) == \E i \in DOMAIN allowed : allowed[i] = w
       IN /\ requested # <<>> => granted = SelectSeq(requested, IsAllowed)
          /\ requested = <<>> => granted = allowed
          /\ \A i \in DOMAIN granted : IsAllowed(granted[i])
          /\ \A i \in DOMAIN resp.scope :
                 resp.scope[i] # WS => IsAllowed(resp.scope[i])
          /\ SelectSeq(resp.scope, IsWord) = granted

\* C6 witness: a request that names only a disallowed scope was granted a
\* token with no scope.
C6_Witness ==
    /\ ~Idle /\ req.path = "/oauth/token" /\ resp.status = 200
    /\ req.body.scope = <<AdminScope>>
    /\ resp.scope = <<>> /\ resp.access_token.payload.scopes = <<>>

\* The outcome C9 names for a token request whose body is a mapping.
C9_Expected(r) ==
    LET cred == Credentials(r) IN
    IF r.body.grant_type # "client_credentials"
    THEN <<400, "unsupported_grant_type">>
    ELSE IF cred.client_id \in {None, ""} \/ cred.client_secret \in {None, ""}
    THEN <<400, "invalid_request">>
    ELSE IF ~Registered(cred.client_id, cred.client_secret)
    THEN <<401, "invalid_client">>
    ELSE <<200, None>>

\* C9: for a token request whose body is a mapping, the answer is, in this
\* order: 400 unsupported_grant_type when grant_type is not
\* 'client_credentials'; else 400 invalid_request when client_id or
\* client_secret is missing or empty after the Basic fallback; else 401
\* invalid_client when the registry refuses them; else 200.  An error answer
\* changes neither the registry nor the grants.
C9_OutcomeOf ==
    (~Idle /\ req.path = "/oauth/token" /\ req.body.kind \in {"form", "json"})
    => /\ <<resp.status, resp.error>> = C9_Expected(req)
       /\ resp.by = "token_endpoint"

C9_ErrorChangesNothing ==
    (req'.path = "/oauth/token" /\ resp'.status # 200)
    => (clients' = clients /\ issued' = issued)

\* C9: for a well-formed token request the answer is decided in this order:
\* a grant_type other than client_credentials gets 400 unsupported_grant_type,
\* then missing credentials get 400 invalid_request, then credentials the
\* registry refuses get 401 invalid_client, otherwise 200; an error answer
\* changes neither the registry nor the grants.
C9_ErrorMapping == []C9_OutcomeOf /\ [][C9_ErrorChangesNothing]_vars

\* C9 witness: a request with an unsupported grant type and no credentials
\* was answered unsupported_grant_type.
C9_Witness ==
    /\ ~Idle /\ req.path = "/oauth/token" /\ req.method = "POST"
    /\ req.body.grant_type = "password"
    /\ req.body.client_id = None /\ req.auth.scheme = "absent"
    /\ resp.error = "unsupported_grant_type"

\* C4, the window: a granted token carries exp = (time of the grant) + TTL and
\* the response reports expires_in = TTL; validate_access_token returns its
\* claims at every time before that and None at every time after it; and a
\* token whose exp is in the past is refused whatever its signature.
C4_Window ==
    /\ \A g \in issued :
          /\ g.access_token.payload.exp = g.at + TOKEN_EXPIRY_SECONDS
          /\ g.access_token.payload.iat = g.at
          /\ g.expires_in = TOKEN_EXPIRY_SECONDS
          /\ now < g.at + TOKEN_EXPIRY_SECONDS
               => validate_access_token(g.access_token, now) = g.access_token.payload
          /\ now > g.at + TOKEN_EXPIRY_SECONDS
               => validate_access_token(g.access_token, now) = NoPayload
    /\ \A token \in BearerTokens :
          token.payload.exp < now => validate_access_token(token, now) = NoPayload

\* C4, no revival: a granted token that validate_access_token refuses is
\* refused one step later as well.
C4_NoRevival ==
    \A g \in issued :
        validate_access_token(g.access_token, now) = NoPayload
        => validate_access_token(g.access_token, now') = NoPayload

\* C4: the validity window of a token, and that expiry is final.
C4_ValidityWindow == []C4_Window /\ [][C4_NoRevival]_vars

\* C4 witness: a granted token was presented after its expiry and refused.
C4_Witness ==
    \E g \in issued :
        /\ now > g.at + TOKEN_EXPIRY_SECONDS
        /\ require_auth /\ ~Idle /\ Protected(req)
        /\ req.auth = Bearer(g.access_token)
        /\ resp.error = "invalid_token"

\* C7 as claimed: every token string that is not a granted token string is
\* refused by validate_access_token.
C7_Original ==
    \A token \in BearerTokens :
        token \notin IssuedTokens => validate_access_token(token, now) = NoPayload

\* C7: validate_access_token accepts a token string only if its header,
\* payload and decoded signature are those of a granted token (the string
\* may differ from the granted one in the unused trailing bits of the
\* signature segment, nowhere else); a token signed with the server's key for
\* another audience is refused.
C7_TamperRejection ==
    /\ \A token \in BearerTokens :
          validate_access_token(token, now) # NoPayload
          => \E t \in IssuedTokens : SameSegments(token, t)
    /\ \A token \in ForeignTokens : validate_access_token(token, now) = NoPayload

\* C7 witness: a granted, unexpired token whose scopes were raised under the
\* old signature was presented and refused.
C7_Witness ==
    \E g \in issued :
        /\ now < g.at + g.expires_in
        /\ require_auth /\ ~Idle /\ Protected(req)
        /\ req.auth = Bearer([g.access_token EXCEPT
                                !.payload.scopes = <<OAUTH2_SCOPE, AdminScope>>])
        /\ resp.error = "invalid_token"

\* A token string that differs from a granted one only in the trailing bits
\* was presented and forwarded.
C7_TrailingBitsAccepted ==
    /\ require_auth /\ ~Idle /\ Protected(req) /\ downstream.called
    /\ req.auth.token \notin IssuedTokens

\* Granted tokens whose exp has passed, and token strings that are forged:
\* signed with another key, signed over other claims, with another alg, or
\* signed well for another audience.
ExpiredIssued == { t \in IssuedTokens : t.payload.exp <= now }

ForgedOrForeign ==
    { t \in BearerTokens :
        /\ t.form = "jws"
        /\ \/ t.sig.key # JWT_SECRET_KEY
           \/ t.sig.over # t.payload
           \/ t.alg # "HS256"
           \/ t.payload.aud # "travel-agent-a2a" }

InvalidTokenResponse ==
    Response("gateway", 401, "invalid_token", "Invalid or expired access token",
             "Bearer error=\"invalid_token\"")

\* C8: two protected requests that differ only in the bearer token, one
\* expired and one forged, get the same outcome; with authentication required
\* it is 401 invalid_token with one fixed description and WWW-Authenticate
\* header, and neither request is forwarded.
C8_NoExpiredForgedOracle ==
    /\ \A t1 \in ExpiredIssued, t2 \in ForgedOrForeign, p \in {"/", "/tasks"} :
          LET o1 == dispatch(Request(p, "POST", Bearer(t1), EmptyBody),
                             require_auth, clients, now, 0)
              o2 == dispatch(Request(p, "POST", Bearer(t2), EmptyBody),
                             require_auth, clients, now, 0)
          IN /\ o1 = o2
             /\ require_auth => (o1.resp = InvalidTokenResponse /\ ~o1.called)
    /\ (require_auth /\ ~Idle /\ Protected(req) /\ req.auth.scheme = "Bearer"
          /\ req.auth.token \in ExpiredIssued \cup ForgedOrForeign)
       => (resp = InvalidTokenResponse /\ ~downstream.called)

\* C8 witness: a forged token was refused while the log holds an expired
\* grant, which the same request would have been refused with.
C8_Witness ==
    /\ ExpiredIssued # {}
    /\ require_auth /\ ~Idle /\ Protected(req)
    /\ req.auth.scheme = "Bearer" /\ req.auth.token \in ForgedTokens
    /\ resp = InvalidTokenResponse

\* The requests the gateway lets through without a bearer check.
Bypass(r) ==
    \/ r.path = "/oauth/token"
    \/ r.path \in {"/.well-known/agent-card.json", "/.well-known/agent.json",
                   "/health"}
    \/ (r.method = "GET" /\ r.path = "/")

\* C10: a request to /oauth/token, to an allow-listed path or a GET on the
\* root path is never answered by the gateway's 401s, whatever its
\* Authorization header; /oauth/token is answered by the token endpoint and
\* not forwarded, the others are forwarded.
C10_AllowListBypass ==
    (~Idle /\ Bypass(req))
    => /\ resp.by # "gateway"
       /\ resp.error \notin {"unauthorized", "invalid_token"}
       /\ req.path = "/oauth/token"
            => (resp.by = "token_endpoint" /\ ~downstream.called)
       /\ req.path # "/oauth/token"
            => (downstream.called /\ resp = DownstreamResponse)

\* C10 witness: with authentication required, a request to the legacy
\* discovery path that carried a forged bearer token was forwarded.
C10_Witness ==
    /\ require_auth /\ ~Idle /\ req.path = "/.well-known/agent.json"
    /\ req.auth.scheme = "Bearer" /\ req.auth.token \in ForgedTokens
    /\ downstream.called

\* The grant whose token the request of the exchange in progress carries.
PresentedGrants ==
    { g \in issued : req.auth.scheme = "Bearer"
                     /\ req.auth.token = g.access_token }

IdentityOf(g) ==
    [set |-> TRUE, oauth2_client_id |-> g.client_id,
     oauth2_scopes |-> Split(g.scope)]

\* C11: a POST to the protocol endpoint that carries a token the token
\* endpoint granted is forwarded at every time before the token's expiry; and
\* whenever a protected request is forwarded with an identity in
\* request.state, the identity is the client_id and the granted scopes of the
\* grant whose token this request carries (with authentication required an
\* identity is always attached).
C11_AcceptanceAndIdentity ==
    /\ \A g \in PresentedGrants :
          (~Idle /\ Protected(req) /\ now < g.at + g.expires_in)
          => /\ downstream.called
             /\ resp = DownstreamResponse
             /\ require_auth => downstream.state = IdentityOf(g)
    /\ (~Idle /\ Protected(req) /\ downstream.called)
       => /\ require_auth => downstream.state.set
          /\ downstream.state.set
             => /\ PresentedGrants # {}
                /\ \A g \in PresentedGrants : downstream.state = IdentityOf(g)

\* C11 witness: two clients hold tokens with different grants, time has
\* passed since the grant, and a request with the token of one of them was
\* forwarded with that client's identity.
C11_Witness ==
    /\ require_auth /\ ~Idle /\ Protected(req) /\ downstream.called
    /\ \E g \in PresentedGrants, h \in issued :
          /\ h.client_id # g.client_id
          /\ h.scope # g.scope
          /\ g.at < now
          /\ downstream.state.oauth2_client_id = g.client_id
          /\ downstream.state.oauth2_scopes = <<OAUTH2_SCOPE, AdminScope>>

\* C12: whatever the registry holds now, every granted token that has not
\* expired passes validate_access_token with the claims it was granted with,
\* and a protected request that carries it is forwarded (with the granted
\* identity when authentication is required).
C12_NoRevocation ==
    \A g \in issued :
        now < g.at + g.expires_in
        => /\ validate_access_token(g.access_token, now) = g.access_token.payload
           /\ g.access_token.payload.client_id = g.client_id
           /\ g.access_token.payload.scopes = Split(g.scope)
           /\ (~Idle /\ Protected(req) /\ g \in PresentedGrants)
              => /\ downstream.called
                 /\ require_auth => downstream.state = IdentityOf(g)

\* C12 witness: a client was given a token and then disabled; later, before
\* the expiry, a request with the token was forwarded.
C12_Witness ==
    /\ require_auth /\ ~Idle /\ Protected(req) /\ downstream.called
    /\ \E g \in PresentedGrants :
          /\ g.at < now
          /\ ~clients[g.client_id].enabled

\* The same after the client was registered again with another secret and
\* other scopes.
C12_ReRegistered ==
    /\ require_auth /\ ~Idle /\ Protected(req) /\ downstream.called
    /\ \E g \in PresentedGrants :
          /\ clients[g.client_id].enabled
          /\ clients[g.client_id].client_secret_hash = hash_secret("hunter2")
          /\ Range(downstream.state.oauth2_scopes) # Range(clients[g.client_id].scopes)

\* validate_client returns the entry of client_id exactly when there is one,
\* it is enabled and its stored hash is the hash of the secret; an entry is
\* filed under its own client_id and holds the hash of a secret.
C13_Validate ==
    /\ \A c \in ClientIds, s \in RegistrySecrets :
          /\ validate_client(clients, c, s) # NoClient
             <=> /\ c \in DOMAIN clients
                 /\ clients[c].enabled
                 /\ clients[c].client_secret_hash = hash_secret(s)
          /\ validate_client(clients, c, s) # NoClient
             => validate_client(clients, c, s) = clients[c]
    /\ \A c \in DOMAIN clients :
          /\ clients[c].client_id = c
          /\ DOMAIN clients[c]
             = {"client_id", "client_secret_hash", "scopes", "enabled"}
          /\ clients[c].client_secret_hash
             \in { hash_secret(s) : s \in RegistrySecrets }

\* A register_client(c, s, sc) step leaves an enabled entry for c that
\* validates with s and with no other secret, and leaves every other entry
\* as it was.
C13_Register ==
    \A c \in ClientIds, s \in RegistrySecrets, sc \in RegisterScopes :
        (registry_ops' = registry_ops + 1
         /\ clients' = register_client(clients, c, s, sc))
        => /\ DOMAIN clients' = DOMAIN clients \cup {c}
           /\ validate_client(clients', c, s) = clients'[c]
           /\ \A s2 \in RegistrySecrets \ {s} :
                 validate_client(clients', c, s2) = NoClient
           /\ \A c2 \in DOMAIN clients \ {c} : clients'[c2] = clients[c2]

\* C13: after any sequence of register calls validate_client(client_id,
\* secret) returns a client exactly when client_id is registered, the client
\* is enabled and secret is the one of the latest register call for that id
\* (a register call overwrites the entry, so the earlier secret stops
\* validating); the registry holds one entry per client_id and in it the hash
\* of the secret, not the secret.
C13_Registry == []C13_Validate /\ [][C13_Register]_vars

\* C13 witness: the default client acme was registered again with another
\* secret; the first secret validates no more, the second does.
C13_Witness ==
    /\ "" \notin DOMAIN clients
    /\ registry_ops > 0
    /\ validate_client(clients, "acme", "s3cr3t") = NoClient
    /\ validate_client(clients, "acme", "hunter2") = clients["acme"]

\* The states of the status events of call t, in the order they were
\* enqueued: those of execute's own TaskUpdater, and all of them.
StatesOf(evs) == [i \in 1..Len(evs) |-> evs[i].state]

ExecuteEvents(t) == SelectSeq(events[t], LAMBDA e : e.by = "execute")

TerminalEvents(t) == SelectSeq(events[t], LAMBDA e : e.state \in TerminalStates)

\* C14: the events one execute call emits are WORKING followed by one
\* terminal status: nothing or WORKING alone while the call is in progress,
\* WORKING and then one of COMPLETED, FAILED, CANCELED once it is over; it is
\* FAILED when the business layer raised; every call returns.  (The event
\* queue takes every event.)
C14_WorkingThenOneTerminal ==
    \A t \in DOMAIN calls :
        LET states == StatesOf(ExecuteEvents(t)) IN
        /\ calls[t].pc # "raised"
        /\ ~Over(calls[t]) => states \in {<<>>, <<"working">>}
        /\ Over(calls[t])
           => /\ Len(states) = 2
              /\ states[1] = "working"
              /\ states[2] \in TerminalStates
              /\ calls[t].error = BusinessError <=> states[2] = "failed"

\* C14 witness: two calls are over, one whose business layer raised and one
\* that was answered.
C14_Witness ==
    \E t, u \in DOMAIN calls :
        /\ Over(calls[t]) /\ calls[t].error = BusinessError
        /\ StatesOf(ExecuteEvents(t)) = <<"working", "failed">>
        /\ Over(calls[u]) /\ calls[u].response.kind = "reply"
        /\ StatesOf(ExecuteEvents(u)) = <<"working", "completed">>

\* C15: the event stream of a task holds at most one terminal status, with
\* execute and cancel interleaved in any order: no COMPLETED or FAILED after
\* CANCELED and no CANCELED after COMPLETED or FAILED.
C15_OneTerminalPerTask ==
    \A t \in DOMAIN calls : Len(TerminalEvents(t)) <= 1

\* C16: cancel on a task whose stream already holds a terminal status emits
\* no event and changes neither the calls nor the sessions.
C16_CancelStep ==
    \A t \in DOMAIN calls :
        (Len(TerminalEvents(t)) > 0 /\ calls' = calls)
        => (events'[t] = events[t] /\ contexts' = contexts)

C16_CancelTerminalNoOp == [][C16_CancelStep]_vars

\* The message has no text to extract: there is no message, it has no
\* parts, none of its parts carries text, or there are only blanks in them.
EmptyInput(message) ==
    \/ ~message.present
    \/ \A i \in DOMAIN message.parts :
           \/ message.parts[i].kind # "text"
           \/ \A j \in DOMAIN message.parts[i].text :
                  message.parts[i].text[j] = WS

\* C18: for an empty input execute emits WORKING and then COMPLETED with the
\* fixed clarification, never FAILED, and never enters the business layer:
\* it appends nothing to the session's history and leaves the agent's
\* attributes alone.
C18_EmptyInput ==
    \A t \in DOMAIN calls :
        EmptyInput(calls[t].message)
        => /\ calls[t].pc \in {"resolved", "working", "empty", "returned"}
           /\ calls[t].pc \in {"resolved"} <=> ExecuteEvents(t) = <<>>
           /\ calls[t].pc \in {"working", "empty"}
              <=> ExecuteEvents(t) = <<Event("execute", "working", ProcessingNotice)>>
           /\ calls[t].pc = "returned"
              <=> ExecuteEvents(t) = <<Event("execute", "working", ProcessingNotice),
                                      Event("execute", "completed", Clarification)>>
           /\ Clarification # NoStatusMessage
           /\ \A i \in DOMAIN contexts[calls[t].session].history :
                 contexts[calls[t].session].history[i].content.text
                     # calls[t].user_message

\* C18 witness: a message whose text part holds only a blank was answered
\* with the clarification.
C18_Witness ==
    \E t \in DOMAIN calls :
        /\ calls[t].message = Message(<<TextPart(<<WS>>)>>)
        /\ calls[t].pc = "returned"
        /\ Len(ExecuteEvents(t)) = 2
        /\ ExecuteEvents(t)[2].message = Clarification

\* C17: when the business layer raises, execute emits FAILED with a message
\* that carries the exception's text, emits no COMPLETED, and returns; and no
\* exception raised inside execute, by the business layer or by a status
\* emission, leaves execute.
C17_NothingPropagates ==
    \A t \in DOMAIN calls :
        /\ calls[t].pc # "raised"
        /\ (Over(calls[t]) /\ calls[t].error = BusinessError)
           => /\ \E i \in DOMAIN events[t] :
                    /\ events[t][i].state = "failed"
                    /\ events[t][i].message = ErrorMessage(BusinessError)
                    /\ events[t][i].message # NoStatusMessage
              /\ \A i \in DOMAIN events[t] : events[t][i].state # "completed"

\* What holds of C17: a business-layer exception ends in FAILED with the
\* exception's text and without COMPLETED whenever the FAILED emission itself
\* succeeds.
C17_FailedWhenEmitted ==
    \A t \in DOMAIN calls :
        (calls[t].pc = "returned" /\ calls[t].error = BusinessError)
        => /\ \E i \in DOMAIN events[t] :
                 events[t][i] = Event("execute", "failed", ErrorMessage(BusinessError))
           /\ \A i \in DOMAIN events[t] : events[t][i].state # "completed"

\* The exception of the FAILED emission has left execute.
C17_Propagated ==
    \E t \in DOMAIN calls :
        calls[t].pc = "raised" /\ calls[t].error = BusinessError

\* The attributes extracted from the messages of session s among the first n
\* calls, merged in the order of the calls.
RECURSIVE SessionAttributes(_, _)
SessionAttributes(s, n) ==
    IF n = 0 THEN EmptyContext
    ELSE IF calls[n].session = s
    THEN extract_context(calls[n].user_message, SessionAttributes(s, n - 1))
    ELSE SessionAttributes(s, n - 1)

\* The entries a call has put into the history of its session.
Turns(call) ==
    IF call.pc \in {"processed", "returned"} /\ call.response.kind = "reply"
    THEN <<HistoryEntry("user", UserTurn(call.user_message)),
           HistoryEntry("agent", call.response)>>
    ELSE IF call.pc \in {"business", "answered", "except", "returned"}
            /\ call.user_message # <<>>
    THEN <<HistoryEntry("user", UserTurn(call.user_message))>>
    ELSE <<>>

RECURSIVE SessionTurns(_, _)
SessionTurns(s, n) ==
    IF n = 0 THEN <<>>
    ELSE IF calls[n].session = s
    THEN SessionTurns(s, n - 1) \o Turns(calls[n])
    ELSE SessionTurns(s, n - 1)

\* Call b follows call a in a's session: a was answered, and b was made with
\* the context_id of a's events, which names a's session.
Continues(a, b) ==
    /\ a < b
    /\ calls[a].response.kind = "reply"
    /\ calls[b].response.kind = "reply"
    /\ calls[b].context_id = calls[a].context_id
    /\ calls[b].context_id \notin {NoId, EmptyId}
    /\ \A t \in 1..b : calls[t].session = calls[a].session => calls[t].error = None

\* C19: when message B is handled with the session id of message A's
\* handling, B runs on A's session: the attributes its business logic
\* observes are those extracted from the session's messages up to B, merged
\* in order, and the session's history holds A's turns and then B's.
C19_SessionContinuity ==
    \A a, b \in DOMAIN calls :
        Continues(a, b)
        => /\ calls[b].session = calls[a].session
           /\ calls[b].response.seen = SessionAttributes(calls[b].session, b)
           /\ Over(calls[b])
              => contexts[calls[b].session].history
                 = SessionTurns(calls[b].session, Len(calls))

\* What holds of C19: B runs on A's session, the history holds the turns in
\* order, and B observes every attribute of the session's messages (next to
\* whatever the agent holds from other sessions).
C19_SessionAttributesObserved ==
    \A a, b \in DOMAIN calls :
        Continues(a, b)
        => /\ calls[b].session = calls[a].session
           /\ \A k \in DOMAIN EmptyContext :
                 SessionAttributes(calls[b].session, b)[k] # None
                 => calls[b].response.seen[k]
                    = SessionAttributes(calls[b].session, b)[k]
           /\ Over(calls[b])
              => contexts[calls[b].session].history
                 = SessionTurns(calls[b].session, Len(calls))

\* B was answered from an attribute that no message of its session holds.
C19_Leak ==
    \E a, b \in DOMAIN calls :
        /\ Continues(a, b)
        /\ SessionAttributes(calls[b].session, b).destination = None
        /\ calls[b].response.seen.destination = "Tokyo"

\* An execute() call starts: _get_or_create_context(context_id) runs.
C20_ResolveStep ==
    Len(calls') = Len(calls) + 1
    => LET call == calls'[Len(calls')]
           id == call.context_id
           s == call.session
       IN
       /\ \A k \in DOMAIN contexts : contexts'[k] = contexts[k]
       /\ id \in DOMAIN contexts
          => s = id /\ contexts' = contexts /\ uuids' = uuids
       /\ (id \notin DOMAIN contexts /\ id \notin {NoId, EmptyId})
          => /\ s = id
             /\ DOMAIN contexts' = DOMAIN contexts \cup {id}
             /\ contexts'[id].history = <<>>
             /\ contexts'[id].user_context = EmptyContext
       /\ id \in {NoId, EmptyId}
          => /\ s \notin DOMAIN contexts
             /\ s \notin {NoId, EmptyId}
             /\ DOMAIN contexts' = DOMAIN contexts \cup {s}
             /\ contexts'[s].history = <<>>
             /\ contexts'[s].user_context = EmptyContext

\* C20: _get_or_create_context returns the session of a known id and
\* changes nothing in the store; for an unknown id it adds one session with
\* empty history and empty attributes under that id; for an absent (None or
\* empty) id it adds one such session under a fresh id that no session has;
\* no other session is changed.
C20_Resolve == [][C20_ResolveStep]_vars

\* C20 witness: the store holds a session under a generated id and one with
\* history under a caller's id, and a call has just resolved the latter.
C20_Witness ==
    \E t \in DOMAIN calls :
        /\ calls[t].pc = "resolved"
        /\ calls[t].context_id = CallerId(1)
        /\ Len(contexts[CallerId(1)].history) = 2
        /\ Uuid4(1) \in DOMAIN contexts

\* C21: requests for one session do not interleave their mutations of it:
\* the history of every session is the turns of its requests in the order
\* the dispatcher received them, each user entry directly followed by the
\* reply made for it, and once its requests are over and answered the
\* session holds every attribute they extracted.
C21_PerSessionSerialized ==
    \A s \in DOMAIN contexts :
        /\ contexts[s].history = SessionTurns(s, Len(calls))
        /\ (\A t \in DOMAIN calls :
                calls[t].session = s
                => Over(calls[t]) /\ calls[t].error = None)
           => \A k \in DOMAIN EmptyContext :
                 SessionAttributes(s, Len(calls))[k] # None
                 => contexts[s].user_context[k] # None

\* Two requests of one session were handled side by side and the user entry
\* of the second stands between the user entry and the reply of the first.
C21_Interleaved ==
    \E s \in DOMAIN contexts :
        /\ Len(contexts[s].history) = 4
        /\ contexts[s].history[1].role = "user"
        /\ contexts[s].history[2].role = "user"
        /\ contexts[s].history[3].role = "agent"
        /\ contexts[s].history[3].content.text = contexts[s].history[1].content.text
        /\ contexts[s].history[3].content.text # contexts[s].history[2].content.text

\* No step takes a key out of the attributes a session holds.
C22_KeysKept ==
    \A s \in DOMAIN contexts, k \in DOMAIN EmptyContext :
        contexts[s].user_context[k] # None
        => /\ s \in DOMAIN contexts'
           /\ contexts'[s].user_context[k] # None

\* A step that changes the attributes of a session is the end of a handled
\* message, and it stores the attributes the agent held with those of the
\* message written over them.
C22_OnlyAddsOrOverwrites ==
    \A s \in DOMAIN contexts :
        (s \in DOMAIN contexts' /\ contexts'[s].user_context # contexts[s].user_context)
        => \E t \in DOMAIN calls :
              /\ calls[t].session = s
              /\ calls[t].pc = "answered" /\ calls'[t].pc = "processed"
              /\ contexts'[s].user_context = user_context
              /\ \A k \in DOMAIN EmptyContext :
                    extract_context(calls[t].user_message, EmptyContext)[k] # None
                    => user_context[k] # None

C25_AlwaysStructuredAnswer ==
    (~Idle /\ req.path = "/oauth/token")
    => /\ resp.by = "token_endpoint"
       /\ resp.status \in {200, 400, 401}
       /\ req.body.kind \in {"json_invalid", "json_nonobject"}
          => (resp.status = 400 /\ resp.error = "invalid_request")

\* What holds of C25: form bodies, JSON objects and unparsable JSON are
\* answered 200, 400 or 401 by the endpoint, unparsable JSON with 400
\* invalid_request.
C25_StructuredUnlessNonObject ==
    (~Idle /\ req.path = "/oauth/token" /\ req.body.kind # "json_nonobject")
    => /\ resp.by = "token_endpoint"
       /\ resp.status \in {200, 400, 401}
       /\ req.body.kind = "json_invalid"
          => (resp.status = 400 /\ resp.error = "invalid_request")

\* A JSON array was posted and the exception of body.get left the endpoint.
C25_Unhandled ==
    /\ ~Idle /\ req.path = "/oauth/token"
    /\ req.body.kind = "json_nonobject"
    /\ resp = UnhandledException

\* C26: with messages handled one after the other, an attribute that no
\* message of a session holds is never among the session's stored
\* attributes and is never among the attributes the business layer answers
\* a message of that session from.
C26_SessionIsolation ==
    /\ \A s \in DOMAIN contexts : \A k \in DOMAIN EmptyContext :
           contexts[s].user_context[k] # None
           => SessionAttributes(s, Len(calls))[k] # None
    /\ \A t \in DOMAIN calls : \A k \in DOMAIN EmptyContext :
           (calls[t].response.kind = "reply" /\ calls[t].response.seen[k] # None)
           => SessionAttributes(calls[t].session, t)[k] # None

\* Session s2 stores the destination that only a message of s1 named.
C26_Leak ==
    \E a, b \in DOMAIN calls :
        /\ calls[a].session = CallerId(1)
        /\ calls[b].session = CallerId(2)
        /\ calls[a].user_message = <<"paris">>
        /\ calls[b].user_message = <<"$2000", WS, "hello">>
        /\ contexts[CallerId(2)].user_context.destination = "Paris"

\* C28: the session is resolved after WORKING and the extraction, and only
\* for messages with text: every entry of the session store was made for a
\* message with text, so handling an empty-input message creates none.
C28_EmptyInputLeavesStore ==
    \A s \in DOMAIN contexts :
        \E t \in DOMAIN calls :
            /\ calls[t].session = s
            /\ extract_message_text(calls[t].message) # <<>>

\* What holds of C28: an empty-input message appends nothing; a session
\* that only empty-input messages named is as it was created.
C28_EmptyInputAppendsNothing ==
    \A s \in DOMAIN contexts :
        (\A t \in DOMAIN calls :
            calls[t].session = s => extract_message_text(calls[t].message) = <<>>)
        => contexts[s] = NewContext(s)

\* An empty-input message with no context_id was answered with the
\* clarification and has left a session entry.
C28_EntryForEmptyInput ==
    \E t \in DOMAIN calls :
        /\ calls[t].context_id = NoId
        /\ calls[t].pc = "returned"
        /\ calls[t].user_message = <<>>
        /\ calls[t].session \in DOMAIN contexts

\* The attributes of the messages among the first n calls that the business
\* layer did not fail on, merged in the order of the calls.
RECURSIVE PersistedAttributes(_)
PersistedAttributes(n) ==
    IF n = 0 THEN EmptyContext
    ELSE IF calls[n].error = None
    THEN extract_context(calls[n].user_message, PersistedAttributes(n - 1))
    ELSE PersistedAttributes(n - 1)

\* Every call so far was made in one session, the caller's first.
OneSession(n) == \A t \in 1..n : calls[t].session = CallerId(1)

\* C29: attributes are persisted only on a successful reply.  In a
\* conversation of one session, a message is answered from the attributes
\* of the messages that did not fail before it and its own, the session
\* stores those once every call is over, and a failed message has left its
\* user turn and no agent turn in the history.
C29_FailureLeavesNoAttributes ==
    /\ \A b \in DOMAIN calls :
           (OneSession(b) /\ calls[b].response.kind = "reply")
           => calls[b].response.seen = PersistedAttributes(b)
    /\ (OneSession(Len(calls)) /\ \A t \in DOMAIN calls : Over(calls[t]))
       => /\ Len(calls) > 0
             => contexts[CallerId(1)].user_context
                = PersistedAttributes(Len(calls))
          /\ Len(calls) > 0
             => contexts[CallerId(1)].history
                = SessionTurns(CallerId(1), Len(calls))

\* What holds of C29: the handling of a message the business layer raises
\* on changes no stored attributes, and the history of its session holds
\* its user turn and no agent turn.
C29_StoredKeptOnFailureStep ==
    \A t \in DOMAIN calls :
        (calls'[t] # calls[t] /\ calls'[t].error # None)
        => /\ \A s \in DOMAIN contexts :
                 contexts'[s].user_context = contexts[s].user_context
           /\ contexts'[calls[t].session].history
              = contexts[calls[t].session].history

C29_StoredKeptOnFailure ==
    /\ [][C29_StoredKeptOnFailureStep]_vars
    /\ [] ((OneSession(Len(calls)) /\ Len(calls) > 0
            /\ \A t \in DOMAIN calls : Over(calls[t]))
           => contexts[CallerId(1)].history
              = SessionTurns(CallerId(1), Len(calls)))

\* "paris" failed, and the next message of the session, which names no
\* destination, was answered from the destination Paris.
C29_FailedAttributeObserved ==
    \E a, b \in DOMAIN calls :
        /\ OneSession(b) /\ b = a + 1
        /\ calls[a].user_message = <<"paris">>
        /\ calls[a].error = BusinessError
        /\ calls[b].user_message = <<"$2000", WS, "hello">>
        /\ calls[b].response.kind = "reply"
        /\ calls[b].response.seen.destination = "Paris"

\* Call b is the first call made in the session of clear_context() call r
\* after it.
FirstAfterReset(r, b) ==
    /\ cleared[r].after < b
    /\ calls[b].session = cleared[r].context_id
    /\ \A c \in (cleared[r].after + 1)..(b - 1) :
           calls[c].session # cleared[r].context_id

\* The attributes named by the messages of calls a..b.
NamedIn(a, b, k) ==
    \E c \in a..b : extract_context(calls[c].user_message, EmptyContext)[k] # None

\* Attribute k was named by a message of session s among the first n calls.
NamedInSession(s, n, k) ==
    \E c \in 1..n :
        /\ calls[c].session = s
        /\ extract_context(calls[c].user_message, EmptyContext)[k] # None

\* C23: after clear_context(s), the next resolve of s finds a session with
\* empty history and empty attributes under the id s, and the first
\* message handled in it is answered from no attribute extracted before the
\* reset: an attribute the session's messages named before the reset is
\* passed to the business layer only if a message handled after the reset
\* names it.
C23_ResetForgets ==
    \A r \in DOMAIN cleared : \A b \in DOMAIN calls :
        FirstAfterReset(r, b)
        => /\ calls[b].pc \in {"resolved", "working", "scheduled"}
              => contexts[calls[b].session] = NewContext(cleared[r].context_id)
           /\ calls[b].response.kind \in {"pending", "reply"}
              => \A k \in DOMAIN EmptyContext :
                     (/\ calls[b].response.seen[k] # None
                      /\ NamedInSession(cleared[r].context_id, cleared[r].after, k))
                     => NamedIn(cleared[r].after + 1, b, k)

\* What holds of C23: the session resolved after the reset is new and
\* empty, and clear_context of an id the store does not hold leaves the
\* store as it is.
C23_ResolvedEmptyStep ==
    (cleared' # cleared /\ cleared'[Len(cleared')].context_id \notin DOMAIN contexts)
    => contexts' = contexts

C23_ResolvedEmpty ==
    /\ [][C23_ResolvedEmptyStep]_vars
    /\ [] (\A r \in DOMAIN cleared : \A b \in DOMAIN calls :
               (FirstAfterReset(r, b)
                /\ calls[b].pc \in {"resolved", "working", "scheduled"})
               => contexts[calls[b].session] = NewContext(cleared[r].context_id))

\* After clear_context of s1, the first message of s1, which names no
\* destination, was sent to the LLM with the destination named before it.
C23_Remembered ==
    \E r \in DOMAIN cleared : \E b \in DOMAIN calls :
        /\ FirstAfterReset(r, b)
        /\ cleared[r].context_id = CallerId(1)
        /\ calls[b].response.kind = "reply"
        /\ calls[b].response.seen.destination = "Paris"
        /\ NamedInSession(CallerId(1), cleared[r].after, "destination")
        /\ ~NamedIn(cleared[r].after + 1, b, "destination")

\* The attributes _process_message hands the business layer for the next
\* message of session s (lines 194-195).
EffectiveContext(store, shared, s) ==
    IF store[s].user_context # EmptyContext
    THEN dict_update(shared, store[s].user_context)
    ELSE shared

\* C27: clear_context(s) changes nothing of another session: what the store
\* holds for it, the attributes the business layer would start its next
\* message from, and the LLM conversation history are as before.
C27_ResetStep ==
    (cleared' # cleared)
    => \A o \in DOMAIN contexts \ {cleared'[Len(cleared')].context_id} :
           /\ o \in DOMAIN contexts'
           /\ contexts'[o] = contexts[o]
           /\ EffectiveContext(contexts', user_context', o)
              = EffectiveContext(contexts, user_context, o)
           /\ conversation_history' = conversation_history

C27_ResetFrame == [][C27_ResetStep]_vars

\* What holds of C27: the store keeps the history and the attributes of
\* every other session.
C27_StoredKeptStep ==
    (cleared' # cleared)
    => \A o \in DOMAIN contexts \ {cleared'[Len(cleared')].context_id} :
           /\ o \in DOMAIN contexts'
           /\ contexts'[o] = contexts[o]

C27_StoredKept == [][C27_StoredKeptStep]_vars

\* clear_context(s1) was called while s2 had a turn in the LLM history, and
\* the history holds the system prompt alone.
C27_HistoryLost ==
    \E r \in DOMAIN cleared :
        /\ cleared[r].context_id = CallerId(1)
        /\ cleared[r].after = Len(calls)
        /\ CallerId(2) \in DOMAIN contexts
        /\ Len(contexts[CallerId(2)].history) = 2
        /\ conversation_history = new_conversation(TRUE)

\* C24: the LLM call is bounded: every execute() call, whether the backend
\* answers or not, is eventually over with a terminal status.
C24_BoundedDelegation ==
    \A t \in 1..MaxTasks :
        [] (Len(calls) >= t => <> (Len(calls) >= t /\ Over(calls[t])))

\* What holds of C24: every execute() call is eventually over or waiting
\* for the backend, and a call the backend has answered or failed is
\* eventually over.
C24_OverOrWaiting ==
    \A t \in 1..MaxTasks :
        /\ [] (Len(calls) >= t
               => <> (Len(calls) >= t
                      /\ (Over(calls[t]) \/ calls[t].pc = "llm")))
        /\ [] ((Len(calls) >= t /\ calls[t].pc = "answered")
               => <> (Len(calls) >= t /\ Over(calls[t])))

\* C30: whenever get_ai_response has returned, the LLM conversation history
\* holds at most 20 entries and begins with the system prompt.
C30_HistoryBound ==
    ai_enabled
    => /\ Len(conversation_history) <= HistoryLimit
       /\ Len(conversation_history) > 0
       /\ conversation_history[1] = HistoryEntry("system", SystemPrompt)

\* What holds of C30: the history begins with the system prompt, and holds
\* at most 20 entries when the last get_ai_response call succeeded.
C30_BoundAfterSuccess ==
    ai_enabled
    => /\ Len(conversation_history) > 0
       /\ conversation_history[1] = HistoryEntry("system", SystemPrompt)
       /\ conversation_history[Len(conversation_history)].role = "assistant"
          => Len(conversation_history) <= HistoryLimit

\* Two calls whose LLM call failed have left more than 20 entries.
C30_Overgrown ==
    /\ Len(conversation_history) > HistoryLimit
    /\ conversation_history[Len(conversation_history)].role = "user"
    /\ conversation_history[Len(conversation_history) - 1].role = "user"

====
